---- MODULE Spec2Model ----
(***************************************************************************)
(* Citation parsing and context extraction of create_citation_dataset.py   *)
(* (CitationParser, extract_relevant_text) and the older CitationParser of  *)
(* citation_parser.py.                                                      *)
(*                                                                         *)
(* A Python str is a sequence of one-character strings.  Offsets into a    *)
(* str are 0-based, as in the source, so that the window arithmetic reads  *)
(* as it does there; Slice(t, a, b) is t[a:b].  The section sign and the   *)
(* en/em dashes of the patterns are the characters "SECTION_SIGN",         *)
(* "EN_DASH" and "EM_DASH".                                                *)
(***************************************************************************)
EXTENDS Integers, Sequences, FiniteSets, TLC

VARIABLES
    parser,     \* the CitationParser instance: its four compiled patterns
    text,       \* the document text handed to both functions (a str or None)
    pc,         \* "ready" | "parsed" | "located"
    ncalls,     \* calls of parse_all_citations made so far
    parsed,     \* outcome of the latest parse_all_citations call
    argCitation,\* the citation_match handed to extract_relevant_text
    argWindow,  \* its window_size
    excerpt,    \* outcome of the extract_relevant_text call
    calls,      \* per worker: the call it makes, its locals and its position
    resultLists,\* the lists named all_results, by the cell that holds them
    cleaning,   \* the text-cleaning call made: function, argument, outcome
    stream,     \* the documents the dataset iterator yields, in order
    job,        \* the locals of the running process_dataset call
    csv,        \* citations.csv in output_dir: its rows, or absent
    reported,   \* the index printed by 'Resume from document ...', if any
    batches,    \* single-commit-cleaner.py process_dataset: batches and part files
    pushing,    \* single-commit-cleaner.py upload_entire_dataset: the retry loop
    hierarchy,  \* structured_dataset_generator.py: doc ids and a computed path
    scrape,     \* ecode-scraper.py: the CSV, the saved state and the URLs visited
    chunkUpload,\* fixed-upload.py upload_entire_dataset: chunks and the hub
    watcher     \* auto_upload.py auto_upload: its locals and the attempts made

single == <<text, pc, ncalls, parsed, argCitation, argWindow, excerpt>>
workerVars == <<calls, resultLists>>
cleanerVars == <<cleaning>>
datasetVars == <<stream, job, csv, reported>>
scriptVars == <<batches, pushing, hierarchy, scrape, chunkUpload, watcher>>
textVars == <<parser, single, workerVars, cleanerVars, datasetVars>>
vars == <<textVars, scriptVars>>

\* The variables of the parts a specification does not exercise.
NoWorkers == calls = << >> /\ resultLists = << >>
NoCleaning == cleaning = [fn |-> "none"]
NoDataset == stream = << >> /\ job = [phase |-> "none"] /\ csv = [exists |-> FALSE]
             /\ reported = [said |-> FALSE]
NoScripts == /\ batches = [phase |-> "none"] /\ pushing = [phase |-> "none"]
             /\ hierarchy = [phase |-> "none"] /\ scrape = [phase |-> "none"]
             /\ chunkUpload = [phase |-> "none"] /\ watcher = [phase |-> "none"]

---------------------------------------------------------------------------
(* Bounds of the model.                                                    *)

\* Number of fragments a text is concatenated from.
MaxFrags == 2
\* window_size ranges over 0..MaxWindow and the default.
MaxWindow == 2
\* Calls of parse_all_citations on one parser instance and one text.
MaxCalls == 2

---------------------------------------------------------------------------
(* Characters and character classes (re: \d, \s, [a-z], [A-Z]).            *)

Digit == {"0", "1", "2", "3", "4", "5", "6", "7", "8", "9"}
Lower == {"a", "b", "c", "d", "e", "f", "g", "h", "i", "j", "k", "l", "m",
          "n", "o", "p", "q", "r", "s", "t", "u", "v", "w", "x", "y", "z"}
Upper == {"A", "B", "C", "D", "E", "F", "G", "H", "I", "J", "K", "L", "M",
          "N", "O", "P", "Q", "R", "S", "T", "U", "V", "W", "X", "Y", "Z"}
Space == {" ", "\t", "\n"}

\* A Python value that is a str, and None.
Str(s) == [isStr |-> TRUE, s |-> s]
None == [isStr |-> FALSE, s |-> << >>]

\* Outcomes of a call: a returned value or a raised exception.
Return(v) == [kind |-> "return", value |-> v]
Raise(e) == [kind |-> "raise", exc |-> e]

Max(a, b) == IF a >= b THEN a ELSE b
Min(a, b) == IF a <= b THEN a ELSE b

\* t[a:b] for 0 <= a, 0 <= b.
Slice(t, a, b) == SubSeq(t, a + 1, Min(b, Len(t)))

---------------------------------------------------------------------------
(* Regular expressions as syntax trees, and Python's backtracking matcher. *)

Set(S) == [op |-> "set", set |-> S]
Lit(c) == Set({c})
Dot == [op |-> "dot"]
Cat(rs) == [op |-> "cat", rs |-> rs]
Alt(rs) == [op |-> "alt", rs |-> rs]
Opt(r) == [op |-> "opt", r |-> r]
Star(r) == [op |-> "star", r |-> r]
Plus(r) == Cat(<<r, Star(r)>>)
LazyStar(r) == [op |-> "lazystar", r |-> r]
LazyPlus(r) == Cat(<<r, LazyStar(r)>>)
Grp(n, r) == [op |-> "grp", n |-> n, r |-> r]
Word(s) == Cat([k \in 1..Len(s) |-> Lit(s[k])])

RECURSIVE Run(_, _, _, _), RunEach(_, _, _, _), RunAlt(_, _, _, _, _)

\* Every way r matches t from offset i, in the order the backtracking
\* matcher tries them: a sequence of [end, groups], the first being the
\* match re reports.  groups maps a group number to its <<start, end>>.
Run(r, t, i, g) ==
    LET here == << [end |-> i, groups |-> g] >>
        step == IF i < Len(t) THEN << [end |-> i + 1, groups |-> g] >> ELSE << >>
        more(ms) == SelectSeq(ms, LAMBDA m : m.end > i)
    IN CASE r.op = "set" -> IF i < Len(t) /\ t[i + 1] \in r.set THEN step ELSE << >>
         [] r.op = "dot" -> IF i < Len(t) /\ t[i + 1] # "\n" THEN step ELSE << >>
         [] r.op = "cat" ->
              IF Len(r.rs) = 0 THEN here
              ELSE RunEach(Run(Head(r.rs), t, i, g), Cat(Tail(r.rs)), t, 1)
         [] r.op = "alt" -> RunAlt(r.rs, t, i, g, 1)
         [] r.op = "opt" -> Run(r.r, t, i, g) \o here
         [] r.op = "star" -> RunEach(more(Run(r.r, t, i, g)), r, t, 1) \o here
         [] r.op = "lazystar" -> here \o RunEach(more(Run(r.r, t, i, g)), r, t, 1)
         [] r.op = "grp" ->
              LET ms == Run(r.r, t, i, g)
              IN [k \in 1..Len(ms) |->
                    [end |-> ms[k].end,
                     groups |-> (r.n :> <<i, ms[k].end>>) @@ ms[k].groups]]

\* r continued from each of the matches ms[k..].
RunEach(ms, r, t, k) ==
    IF k > Len(ms) THEN << >>
    ELSE Run(r, t, ms[k].end, ms[k].groups) \o RunEach(ms, r, t, k + 1)

\* The alternatives rs[k..] in order.
RunAlt(rs, t, i, g, k) ==
    IF k > Len(rs) THEN << >>
    ELSE Run(rs[k], t, i, g) \o RunAlt(rs, t, i, g, k + 1)

NoMatch == [found |-> FALSE, start |-> 0, end |-> 0, groups |-> << >>]

\* The match of r that starts at offset i, if any (re.match for i = 0).
MatchAt(r, t, i) ==
    LET ms == Run(r, t, i, << >>)
    IN IF Len(ms) = 0 THEN NoMatch
       ELSE [found |-> TRUE, start |-> i, end |-> ms[1].end, groups |-> ms[1].groups]

RECURSIVE SearchFrom(_, _, _)
\* The leftmost match of r in t at or after offset pos (re.search from pos).
SearchFrom(r, t, pos) ==
    IF pos > Len(t) THEN NoMatch
    ELSE LET m == MatchAt(r, t, pos)
         IN IF m.found THEN m ELSE SearchFrom(r, t, pos + 1)

Search(r, t) == SearchFrom(r, t, 0)

RECURSIVE FinditerFrom(_, _, _)
\* re.finditer: the successive non-overlapping matches, scanning left to
\* right, each scan resuming where the previous match ended.
FinditerFrom(r, t, pos) ==
    LET m == SearchFrom(r, t, pos)
    IN IF ~m.found THEN << >>
       ELSE <<m>> \o FinditerFrom(r, t, IF m.end > m.start THEN m.end ELSE m.end + 1)

Finditer(r, t) == FinditerFrom(r, t, 0)

\* The text of group n of match m ('' for a group that took no part).
Group(m, t, n) ==
    IF n \in DOMAIN m.groups THEN Slice(t, m.groups[n][1], m.groups[n][2]) ELSE << >>

\* A findall that fails when nothing matches, as search(...).groups() does.
FindallRaisesOnNoMatch(r, x) ==
    IF ~x.isStr THEN Raise("TypeError")
    ELSE IF Len(Finditer(r, x.s)) = 0 THEN Raise("AttributeError")
    ELSE LET ms == Finditer(r, x.s)
         IN Return([k \in 1..Len(ms) |-> <<Group(ms[k], x.s, 1), Group(ms[k], x.s, 2)>>])

\* pattern.findall(text) for a pattern of two groups: the list of
\* (group 1, group 2) tuples; TypeError when text is not a str.
Findall(r, x) ==
    IF ~x.isStr THEN Raise("TypeError")
    ELSE LET ms == Finditer(r, x.s)
         IN Return([k \in 1..Len(ms) |-> <<Group(ms[k], x.s, 1), Group(ms[k], x.s, 2)>>])

---------------------------------------------------------------------------
(* CitationParser of create_citation_dataset.py.                           *)

Spaces == Plus(Set(Space))
Digits == Plus(Set(Digit))

\* (?:\s+[SECTION_SIGN\s]?|\s+section\s+|\s+sec\.\s+)
SectionIntro ==
    Alt(<< Cat(<<Spaces, Opt(Set({"SECTION_SIGN"} \cup Space))>>),
           Cat(<<Spaces, Word(<<"s", "e", "c", "t", "i", "o", "n">>), Spaces>>),
           Cat(<<Spaces, Word(<<"s", "e", "c">>), Lit("."), Spaces>>) >>)

\* (\d+)\s+U\.?S\.?C\.?(?:ode)?(?:...)(\d+[a-z]*(?:\([a-z0-9]+\))*)
usc_pattern ==
    Cat(<< Grp(1, Digits), Spaces,
           Lit("U"), Opt(Lit(".")), Lit("S"), Opt(Lit(".")), Lit("C"), Opt(Lit(".")),
           Opt(Word(<<"o", "d", "e">>)),
           SectionIntro,
           Grp(2, Cat(<< Digits, Star(Set(Lower)),
                         Star(Cat(<<Lit("("), Plus(Set(Lower \cup Digit)), Lit(")")>>)) >>)) >>)

\* (\d+)\s+C\.?F\.?R\.?(?:...)(\d+(?:\.\d+)*)
cfr_pattern ==
    Cat(<< Grp(1, Digits), Spaces,
           Lit("C"), Opt(Lit(".")), Lit("F"), Opt(Lit(".")), Lit("R"), Opt(Lit(".")),
           SectionIntro,
           Grp(2, Cat(<< Digits, Star(Cat(<<Lit("."), Digits>>)) >>)) >>)

\* (?:Public\s+Law|P\.L\.)\s+(\d+)[-EN_DASH EM_DASH]?(\d*)
statute_pattern ==
    Cat(<< Alt(<< Cat(<<Word(<<"P", "u", "b", "l", "i", "c">>), Spaces, Word(<<"L", "a", "w">>)>>),
                  Word(<<"P", ".", "L", ".">>) >>),
           Spaces, Grp(1, Digits),
           Opt(Set({"-", "EN_DASH", "EM_DASH"})),
           Grp(2, Star(Set(Digit))) >>)

\* (\d+)\s+Stat\.?(?:utes)?(?:\s+at\s+Large)?\s+(\d+)
stat_pattern ==
    Cat(<< Grp(1, Digits), Spaces,
           Word(<<"S", "t", "a", "t">>), Opt(Lit(".")), Opt(Word(<<"u", "t", "e", "s">>)),
           Opt(Cat(<<Spaces, Word(<<"a", "t">>), Spaces, Word(<<"L", "a", "r", "g", "e">>)>>)),
           Spaces, Grp(2, Digits) >>)

\* CitationParser.__init__
CitationParser ==
    [usc_pattern |-> usc_pattern, cfr_pattern |-> cfr_pattern,
     statute_pattern |-> statute_pattern, stat_pattern |-> stat_pattern]

\* c in s
In(c, s) == \E k \in 1..Len(s) : s[k] = c

\* s.split(c)[0]: s up to its first c, all of s when it has none.
SplitFirst(s, c) ==
    IF In(c, s)
    THEN SubSeq(s, 1, (CHOOSE k \in 1..Len(s) : s[k] = c /\ \A j \in 1..(k - 1) : s[j] # c) - 1)
    ELSE s

SqlUscTitle == <<"S", "E", "L", "E", "C", "T", " ", "*", " ", "F", "R", "O",
        "M", " ", "u", "s", "c", " ", "W", "H", "E", "R", "E",
        " ", "t", "i", "t", "l", "e", " ", "=", " ", "'">>
SqlAndSection == <<"'", " ", "A", "N", "D", " ", "s", "e", "c", "t", "i", "o",
        "n", " ", "=", " ", "'">>
SqlCfrTitle == <<"S", "E", "L", "E", "C", "T", " ", "*", " ", "F", "R", "O",
        "M", " ", "c", "f", "r", " ", "W", "H", "E", "R", "E",
        " ", "t", "i", "t", "l", "e", " ", "=", " ", "'">>
SqlAndPart == <<"'", " ", "A", "N", "D", " ", "p", "a", "r", "t", " ", "=",
        " ", "'">>
SqlLawCongress == <<"S", "E", "L", "E", "C", "T", " ", "*", " ", "F", "R", "O",
        "M", " ", "p", "u", "b", "l", "i", "c", "_", "l", "a",
        "w", "s", " ", "W", "H", "E", "R", "E", " ", "c", "o",
        "n", "g", "r", "e", "s", "s", " ", "=", " ", "'">>
SqlAndLawNumber == <<"'", " ", "A", "N", "D", " ", "l", "a", "w", "_", "n", "u",
        "m", "b", "e", "r", " ", "=", " ", "'">>
SqlStatVolume == <<"S", "E", "L", "E", "C", "T", " ", "*", " ", "F", "R", "O",
        "M", " ", "s", "t", "a", "t", "u", "t", "e", "s", " ",
        "W", "H", "E", "R", "E", " ", "v", "o", "l", "u", "m",
        "e", " ", "=", " ", "'">>
SqlAndPage == <<"'", " ", "A", "N", "D", " ", "p", "a", "g", "e", " ", "=",
        " ", "'">>
Quote == <<"'">>

\* The USC dict with the two groups exchanged.
UscRecordSwapped(match) ==
    LET title == match[2]
        section == match[1]
        section_main == IF In("(", section) THEN SplitFirst(section, "(") ELSE section
    IN [citation_type |-> "USC", title |-> title, section |-> section,
        section_main |-> section_main,
        sql_query |-> SqlUscTitle \o title \o SqlAndSection \o section_main \o Quote,
        full_citation |-> title \o <<" ", "U", ".", "S", ".", "C", ".", " ">> \o section]

\* The USC dict with full_citation built from section_main, not section.
UscRecordCitesMainSection(match) ==
    LET title == match[1]
        section == match[2]
        section_main == IF In("(", section) THEN SplitFirst(section, "(") ELSE section
    IN [citation_type |-> "USC", title |-> title, section |-> section,
        section_main |-> section_main,
        sql_query |-> SqlUscTitle \o title \o SqlAndSection \o section_main \o Quote,
        full_citation |-> title \o <<" ", "U", ".", "S", ".", "C", ".", " ">> \o section_main]

\* The USC dict with section cut at its first parenthesis after the query
\* was built from the whole section.
UscRecordQueryOfWholeSection(match) ==
    LET title == match[1]
        section == match[2]
        section_main == IF In("(", section) THEN SplitFirst(section, "(") ELSE section
    IN [citation_type |-> "USC", title |-> title, section |-> section_main,
        section_main |-> section_main,
        sql_query |-> SqlUscTitle \o title \o SqlAndSection \o section \o Quote,
        full_citation |-> title \o <<" ", "U", ".", "S", ".", "C", ".", " ">> \o section_main]

\* The dict parse_usc_citation appends for one findall tuple.
UscRecord(match) ==
    LET title == match[1]
        section == match[2]
        section_main == IF In("(", section) THEN SplitFirst(section, "(") ELSE section
    IN [citation_type |-> "USC", title |-> title, section |-> section,
        section_main |-> section_main,
        sql_query |-> SqlUscTitle \o title \o SqlAndSection \o section_main \o Quote,
        full_citation |-> title \o <<" ", "U", ".", "S", ".", "C", ".", " ">> \o section]

\* The CFR dict with part taken after the first dot, not before it.
CfrRecordPartAfterDot(match) ==
    LET title == match[1]
        section == match[2]
        part == IF In(".", section)
                THEN SubSeq(section, Len(SplitFirst(section, ".")) + 2, Len(section))
                ELSE section
    IN [citation_type |-> "CFR", title |-> title, part |-> part, section |-> section,
        sql_query |-> SqlCfrTitle \o title \o SqlAndPart \o part \o Quote,
        full_citation |-> title \o <<" ", "C", ".", "F", ".", "R", ".", " ">> \o section]

\* The dict parse_cfr_citation appends for one findall tuple.
CfrRecord(match) ==
    LET title == match[1]
        section == match[2]
        part == IF In(".", section) THEN SplitFirst(section, ".") ELSE section
    IN [citation_type |-> "CFR", title |-> title, part |-> part, section |-> section,
        sql_query |-> SqlCfrTitle \o title \o SqlAndPart \o part \o Quote,
        full_citation |-> title \o <<" ", "C", ".", "F", ".", "R", ".", " ">> \o section]

\* The Public Law dict with the law number group ignored.
StatuteRecordNoLawNumber(match) ==
    LET congress == match[1]
        law_number == << >>
        full_citation == <<"P", "u", "b", "l", "i", "c", " ", "L", "a", "w", " ">> \o congress
    IN [citation_type |-> "Public Law", congress |-> congress, law_number |-> law_number,
        sql_query |-> SqlLawCongress \o congress \o SqlAndLawNumber \o law_number \o Quote,
        full_citation |-> full_citation]

\* The dict parse_statute_citation appends for one findall tuple.
StatuteRecord(match) ==
    LET congress == match[1]
        law_number == IF Len(match) > 1 /\ Len(match[2]) > 0 THEN match[2] ELSE << >>
        full_citation == <<"P", "u", "b", "l", "i", "c", " ", "L", "a", "w", " ">> \o congress
                         \o (IF Len(law_number) > 0 THEN <<"-">> \o law_number ELSE << >>)
    IN [citation_type |-> "Public Law", congress |-> congress, law_number |-> law_number,
        sql_query |-> SqlLawCongress \o congress \o SqlAndLawNumber \o law_number \o Quote,
        full_citation |-> full_citation]

\* The Stat dict with the two groups exchanged.
StatRecordSwapped(match) ==
    LET volume == match[2]
        page == match[1]
    IN [citation_type |-> "Stat", volume |-> volume, page |-> page,
        sql_query |-> SqlStatVolume \o volume \o SqlAndPage \o page \o Quote,
        full_citation |-> volume \o <<" ", "S", "t", "a", "t", ".", " ">> \o page]

\* The dict parse_stat_citation appends for one findall tuple.
StatRecord(match) ==
    LET volume == match[1]
        page == match[2]
    IN [citation_type |-> "Stat", volume |-> volume, page |-> page,
        sql_query |-> SqlStatVolume \o volume \o SqlAndPage \o page \o Quote,
        full_citation |-> volume \o <<" ", "S", "t", "a", "t", ".", " ">> \o page]

\* matches = pattern.findall(text); results = []; for match in matches:
\* results.append(...); return results.  An exception of findall is passed on.
parse_usc_citation(self, x) ==
    LET matches == Findall(self.usc_pattern, x)
    IN IF matches.kind = "raise" THEN matches
       ELSE Return([k \in 1..Len(matches.value) |-> UscRecord(matches.value[k])])

parse_cfr_citation(self, x) ==
    LET matches == Findall(self.cfr_pattern, x)
    IN IF matches.kind = "raise" THEN matches
       ELSE Return([k \in 1..Len(matches.value) |-> CfrRecord(matches.value[k])])

parse_statute_citation(self, x) ==
    LET matches == Findall(self.statute_pattern, x)
    IN IF matches.kind = "raise" THEN matches
       ELSE Return([k \in 1..Len(matches.value) |-> StatuteRecord(matches.value[k])])

parse_stat_citation(self, x) ==
    LET matches == Findall(self.stat_pattern, x)
    IN IF matches.kind = "raise" THEN matches
       ELSE Return([k \in 1..Len(matches.value) |-> StatRecord(matches.value[k])])

\* A result list that outlives the call (an attribute or a default argument).
ListKeptFromLastCall == IF pc = "ready" \/ parsed.kind = "raise" THEN << >> ELSE parsed.value

\* all_results = []
NewList == << >>

\* all_results.extend(more), an exception raised on either side passed on.
Extend(all_results, more) ==
    IF all_results.kind = "raise" THEN all_results
    ELSE IF more.kind = "raise" THEN more
    ELSE Return(all_results.value \o more.value)

parse_all_citations(self, x) ==
    Extend(Extend(Extend(Extend(Return(NewList),
        parse_usc_citation(self, x)),
        parse_cfr_citation(self, x)),
        parse_statute_citation(self, x)),
        parse_stat_citation(self, x))

---------------------------------------------------------------------------
(* CitationParser.parse_usc_citation of citation_parser.py: its records    *)
(* carry no full_citation.  The two characters of its class are the two    *)
(* characters the file holds where the section sign was meant.             *)

\* (\d+)\s+U\.?S\.?C\.?\s+[..\s]?(\d+[a-z]*(?:\([a-z]+\))*)
legacy_usc_pattern ==
    Cat(<< Grp(1, Digits), Spaces,
           Lit("U"), Opt(Lit(".")), Lit("S"), Opt(Lit(".")), Lit("C"), Opt(Lit(".")),
           Spaces, Opt(Set({"THAI_YO_YAK", "THAI_NGO_NGU"} \cup Space)),
           Grp(2, Cat(<< Digits, Star(Set(Lower)),
                         Star(Cat(<<Lit("("), Plus(Set(Lower)), Lit(")")>>)) >>)) >>)

LegacyUscRecord(match) ==
    LET title == match[1]
        section == match[2]
    IN [citation_type |-> "USC", title |-> title, section |-> section,
        sql_query |-> SqlUscTitle \o title \o SqlAndSection \o section \o Quote]

legacy_parse_usc_citation(x) ==
    LET matches == Findall(legacy_usc_pattern, x)
    IN IF matches.kind = "raise" THEN matches
       ELSE Return([k \in 1..Len(matches.value) |-> LegacyUscRecord(matches.value[k])])

---------------------------------------------------------------------------
(* extract_relevant_text.                                                  *)

\* The default of window_size.
DefaultWindow == 500
\* Characters before start_pos searched for a sentence break.
SentenceLookback == 200
\* Added to the offset of a sentence break.
BreakSkip == 2

\* The pattern made of the citation with no re.escape: '.' is any
\* character, parentheses group.
FlexiblePatternUnescaped(citation) ==
    Cat([k \in 1..Len(citation) |->
            IF citation[k] = " " THEN Spaces
            ELSE IF citation[k] = "." THEN Dot
            ELSE IF citation[k] \in {"(", ")"} THEN Cat(<< >>)
            ELSE Lit(citation[k])])

\* re.escape(citation).replace('\\ ', r'\s+'): escape makes every character
\* of the citation match itself alone, and writes a space as '\ ', which
\* the replace turns into \s+.
FlexiblePattern(citation) ==
    Cat([k \in 1..Len(citation) |->
            IF citation[k] = " " THEN Spaces ELSE Lit(citation[k])])

RECURSIVE CompileFrom(_, _)
\* re's reading of an interpolated field: '.' is any character but a
\* newline, '(' ... ')' is a group, any other character of the fields the
\* parsers produce (digits, lowercase letters) is itself.  An unbalanced
\* parenthesis is re.error.
CompileFrom(s, k) ==
    IF k > Len(s) THEN [ok |-> TRUE, rs |-> << >>]
    ELSE IF s[k] = ")" THEN [ok |-> FALSE, rs |-> << >>]
    ELSE IF s[k] = "("
         THEN IF \E j \in (k + 1)..Len(s) : s[j] = ")"
              THEN LET j == CHOOSE j \in (k + 1)..Len(s) :
                                s[j] = ")" /\ \A i \in (k + 1)..(j - 1) : s[i] # ")"
                       inner == CompileFrom(SubSeq(s, k + 1, j - 1), 1)
                       rest == CompileFrom(s, j + 1)
                   IN [ok |-> inner.ok /\ rest.ok,
                       rs |-> <<Cat(inner.rs)>> \o rest.rs]
              ELSE [ok |-> FALSE, rs |-> << >>]
    ELSE LET rest == CompileFrom(s, k + 1)
         IN [ok |-> rest.ok,
             rs |-> <<IF s[k] = "." THEN Dot ELSE Lit(s[k])>> \o rest.rs]

\* f"{title}\\s+[UCS].+?{section}"
LoosePattern(title, section) ==
    LET a == CompileFrom(title, 1)
        b == CompileFrom(section, 1)
    IN [ok |-> a.ok /\ b.ok,
        re |-> Cat(a.rs \o <<Spaces, Set({"U", "C", "S"}), LazyPlus(Dot)>> \o b.rs)]

\* ^\s*[A-Z]
StartsUpper == Cat(<<Star(Set(Space)), Set(Upper)>>)
\* [.!?]\s+[A-Z]
SentenceBreak == Cat(<<Set({".", "!", "?"}), Spaces, Set(Upper)>>)

\* The window with end_pos measured from the start of the match.
ContextAroundEndFromStart(html_content, match, window_size) ==
    LET start_pos == Max(0, match.start - window_size)
        end_pos == Min(Len(html_content), match.start + window_size)
    IN Slice(html_content, start_pos, end_pos)

\* The window with start_pos measured from the end of the match.
ContextAroundStartFromEnd(html_content, match, window_size) ==
    LET start_pos == Max(0, match.end - window_size)
        end_pos == Min(Len(html_content), match.end + window_size)
    IN Slice(html_content, start_pos, end_pos)

\* ContextAround with no window after the match.
ContextAroundWindowBeforeOnly(html_content, match, window_size) ==
    LET start_pos == Max(0, match.start - window_size)
        end_pos == Min(Len(html_content), match.end)
    IN Slice(html_content, start_pos, end_pos)

\* The body of "if match:": the window around the match, moved back to a
\* sentence break when it starts mid-sentence (the same code follows both
\* searches).
ContextAround(html_content, match, window_size) ==
    LET start_pos == Max(0, match.start - window_size)
        end_pos == Min(Len(html_content), match.end + window_size)
        context == Slice(html_content, start_pos, end_pos)
    IN IF start_pos > 0 /\ ~MatchAt(StartsUpper, context, 0).found
       THEN LET prev_text == Slice(html_content, Max(0, start_pos - SentenceLookback), start_pos)
                sentence_breaks == Finditer(SentenceBreak, prev_text)
            IN IF Len(sentence_breaks) > 0
               THEN LET last_break == sentence_breaks[Len(sentence_breaks)].start + BreakSkip
                        new_start == Max(0, start_pos - SentenceLookback + last_break)
                    IN Slice(html_content, new_start, end_pos)
               ELSE context
       ELSE context

ContextNotFound == <<" ", "[", "C", "o", "n", "t", "e", "x", "t", " ", "n", "o",
        "t", " ", "f", "o", "u", "n", "d", "]">>
ErrorExtracting == <<" ", "[", "E", "r", "r", "o", "r", " ", "e", "x", "t", "r",
        "a", "c", "t", "i", "n", "g", " ", "c", "o", "n", "t",
        "e", "x", "t", ":", " ">>

\* citation + f" [Error extracting context: {str(e)}]"; the message of the
\* exception is one element.
ErrorResult(citation, message) == citation \o ErrorExtracting \o <<message>> \o <<"]">>

\* The not-found result without its marker.
NotFoundResultUnmarked(citation) == citation

\* citation + " [Context not found]"
NotFoundResult(citation) == citation \o ContextNotFound

\* A test that takes every record to have a section.
HasSectionAlways(citation_match) == TRUE

\* 'section' in citation_match
HasSection(citation_match) == "section" \in DOMAIN citation_match

\* citation_match.get('title', '')
GetTitle(citation_match) ==
    IF "title" \in DOMAIN citation_match THEN citation_match.title ELSE << >>

extract_relevant_text(html_content, citation_match, window_size) ==
    IF "full_citation" \notin DOMAIN citation_match
    THEN \* KeyError at line 108, caught at line 165; line 166 then reads the
         \* local citation, which was never bound.
         Raise("UnboundLocalError")
    ELSE LET citation == citation_match.full_citation
             pattern == FlexiblePattern(citation)
         IN IF ~html_content.isStr
            THEN \* re.search raises TypeError, caught at line 165.
                 Return(ErrorResult(citation, "expected string or bytes-like object"))
            ELSE LET match == Search(pattern, html_content.s)
                 IN IF match.found
                    THEN Return(ContextAround(html_content.s, match, window_size))
                    ELSE IF HasSection(citation_match)
                    THEN LET loose == LoosePattern(GetTitle(citation_match),
                                                   citation_match.section)
                             match2 == Search(loose.re, html_content.s)
                         IN IF ~loose.ok
                            THEN Return(ErrorResult(citation, "re.error"))
                            ELSE IF match2.found
                            THEN Return(ContextAround(html_content.s, match2, window_size))
                            ELSE Return(NotFoundResult(citation))
                    ELSE Return(NotFoundResult(citation))

---------------------------------------------------------------------------
(* Inputs.                                                                 *)

\* Citations in the spellings the claims name, and what may stand next to
\* them: a digit, a subsection, an earlier citation whose last number is
\* the next one's first, a sentence, plain words.
Fragments ==
    { <<"1", "7", " ", "U", ".", "S", ".", "C", ".", " ", "5", "0", "1">>,
      <<"1", "7", " ", " ", "U", ".", "S", ".", "C", ".", " ", "5",
        "0", "1">>,
      <<"1", "7", " ", "U", "S", "C", " ", "5", "0", "1">>,
      <<"4", "0", " ", "C", "F", "R", " ", "2", "6", "1", ".", "5">>,
      <<"P", "u", "b", "l", "i", "c", " ", "L", "a", "w", " ", "9",
        "6", "-", "5", "1", "0">>,
      <<"1", "2", "4", " ", "S", "t", "a", "t", ".", " ", "1", "1", "9">>,
      <<"5", " ", "S", "t", "a", "t", ".", " ">>,
      <<"5", " ", "U", ".", "S", ".", "C", ".", " ">>,
      <<"5", " ", "C", "F", "R", " ">>,
      <<"1">>,
      <<"(", "a", ")">>,
      <<"I", "t", " ", "i", "s", ".", " ", "S", "e", "e", " ">>,
      <<" ", "a", "s", " ">> }

RECURSIVE Concats(_)
\* The concatenations of at most n fragments.
Concats(n) ==
    IF n = 0 THEN {<< >>}
    ELSE LET shorter == Concats(n - 1)
         IN shorter \cup {s \o f : s \in shorter, f \in Fragments}

Texts == {Str(s) : s \in Concats(MaxFrags)} \cup {None}

\* The citation_match of test_context.py.
TestCitation ==
    [full_citation |-> <<"1", "7", " ", "U", ".", "S", ".", "C", ".", " ", "5", "0", "1">>, citation_type |-> "USC",
     title |-> <<"1", "7">>, section |-> <<"5", "0", "1">>]

Elems(s) == {s[k] : k \in 1..Len(s)}

ValueOr(outcome, default) == IF outcome.kind = "return" THEN outcome.value ELSE default

\* The records a caller may hand to extract_relevant_text with a text: those
\* either parser made of it, and the record of the test.
CitationsFor(x) ==
    Elems(ValueOr(parsed, << >>))
    \cup Elems(ValueOr(legacy_parse_usc_citation(x), << >>))
    \cup {TestCitation}

Windows == 0..MaxWindow \cup {DefaultWindow}

---------------------------------------------------------------------------
(* The state machine: a parser is constructed, a text is parsed (possibly  *)
(* again), and the context of one citation is extracted from the text.     *)

NoOutcome == [kind |-> "none"]
NoCitation == [citation_type |-> "none"]

Init ==
    /\ parser = CitationParser
    /\ text \in Texts
    /\ pc = "ready"
    /\ ncalls = 0
    /\ parsed = NoOutcome
    /\ argCitation = NoCitation
    /\ argWindow = 0
    /\ excerpt = NoOutcome
    /\ NoWorkers /\ NoCleaning /\ NoDataset /\ NoScripts

ParseAllCitations ==
    /\ pc \in {"ready", "parsed"}
    /\ ncalls < MaxCalls
    /\ parsed' = parse_all_citations(parser, text)
    /\ ncalls' = ncalls + 1
    /\ pc' = "parsed"
    /\ UNCHANGED <<parser, text, argCitation, argWindow, excerpt>>
    /\ UNCHANGED <<workerVars, cleanerVars, datasetVars, scriptVars>>

ExtractRelevantText ==
    /\ pc = "parsed"
    /\ \E c \in CitationsFor(text), w \in Windows :
          /\ argCitation' = c
          /\ argWindow' = w
          /\ excerpt' = extract_relevant_text(text, c, w)
    /\ pc' = "located"
    /\ UNCHANGED <<parser, text, ncalls, parsed>>
    /\ UNCHANGED <<workerVars, cleanerVars, datasetVars, scriptVars>>

Next == ParseAllCitations \/ ExtractRelevantText

Spec == Init /\ [][Next]_vars

---------------------------------------------------------------------------
(* Vocabulary of the properties.                                           *)

\* sub occurs in s at (0-based) offset k.
OccursAt(s, sub, k) ==
    k >= 0 /\ k + Len(sub) <= Len(s) /\ SubSeq(s, k + 1, k + Len(sub)) = sub

Occurrences(s, sub) == {k \in 0..Len(s) : OccursAt(s, sub, k)}

Contains(s, sub) == Occurrences(s, sub) # {}

EndsWith(s, sub) == OccursAt(s, sub, Len(s) - Len(sub))

RECURSIVE SqueezeFrom(_, _)
\* s[k..] with every run of whitespace written as one space.
SqueezeFrom(s, k) ==
    IF k > Len(s) THEN << >>
    ELSE (IF s[k] \notin Space THEN <<s[k]>>
          ELSE IF k > 1 /\ s[k - 1] \in Space THEN << >> ELSE <<" ">>)
         \o SqueezeFrom(s, k + 1)

Squeeze(s) == SqueezeFrom(s, 1)

\* The character before offset k, the character at offset e.
PrecededBy(s, k, S) == k > 0 /\ s[k] \in S
FollowedBy(s, e, S) == e < Len(s) /\ s[e + 1] \in S

\* A match of the scan of pattern r over s starts before offset k and ends
\* after it.
OverlappedByEarlier(r, s, k) ==
    LET ms == Finditer(r, s)
    IN \E n \in 1..Len(ms) : ms[n].start < k /\ ms[n].end > k

Located == pc = "located"
Parsed == pc # "ready"
HasFullCitation == "full_citation" \in DOMAIN argCitation
Returned == excerpt.kind = "return"

\* The call had a str text and a record with full_citation.
LocatedIn == Located /\ text.isStr /\ HasFullCitation

IsNotFoundForm(v) == EndsWith(v, ContextNotFound)
IsErrorForm(v) == Contains(v, ErrorExtracting) /\ EndsWith(v, <<"]">>)

\* extract_relevant_text reports a found context.
Found == Returned /\ ~IsNotFoundForm(excerpt.value) /\ ~IsErrorForm(excerpt.value)

\* The fallback pattern of the record handed in matches somewhere in s.
FallbackMatches(s) ==
    /\ HasSection(argCitation)
    /\ LET loose == LoosePattern(GetTitle(argCitation), argCitation.section)
       IN loose.ok /\ Search(loose.re, s).found

\* The parse returned a record with these fields.
ParsedRecord(fields) ==
    /\ parsed.kind = "return"
    /\ \E n \in 1..Len(parsed.value) :
          /\ DOMAIN fields \subseteq DOMAIN parsed.value[n]
          /\ \A f \in DOMAIN fields : parsed.value[n][f] = fields[f]

---------------------------------------------------------------------------
(* C1 *)

\* C1 as stated: for every text that contains the literal full_citation of
\* the record, and every window size >= 0, the excerpt contains that literal
\* string.
C1_ExcerptContainsLiteral ==
    (LocatedIn /\ Contains(text.s, argCitation.full_citation))
        => (Returned /\ Contains(excerpt.value, argCitation.full_citation))

\* C1 as amended: for every text that contains the literal full_citation and
\* every window size >= 0, the excerpt contains the citation with each of
\* its spaces written as a non-empty run of whitespace (the leftmost such
\* occurrence in text, which need not be a literal one).
C1_ExcerptContainsFlexible ==
    (LocatedIn /\ Contains(text.s, argCitation.full_citation))
        => (Returned /\ Contains(Squeeze(excerpt.value), argCitation.full_citation))

\* A text holding the literal citation after a differently spaced one: the
\* excerpt holds only the latter.
C1_Witness ==
    /\ LocatedIn /\ Contains(text.s, argCitation.full_citation)
    /\ Returned
    /\ ~Contains(excerpt.value, argCitation.full_citation)
    /\ Contains(Squeeze(excerpt.value), argCitation.full_citation)

---------------------------------------------------------------------------
(* C2 *)

\* C2 as stated: whenever a found context is reported, the excerpt contains
\* full_citation verbatim, whichever pattern matched.
C2_FoundContainsLiteral ==
    (LocatedIn /\ Found) => Contains(excerpt.value, argCitation.full_citation)

\* C2 as amended: whenever a found context is reported, the excerpt contains
\* the text the search matched: the citation with flexible whitespace
\* (full-citation pattern), or a match of the fallback pattern
\* title \s+ [UCS] .+? section (fallback).
C2_FoundContainsMatch ==
    (LocatedIn /\ Found)
        => \/ Contains(Squeeze(excerpt.value), argCitation.full_citation)
           \/ FallbackMatches(excerpt.value)

\* A context found by the fallback pattern alone.
C2_Witness ==
    /\ LocatedIn /\ Found
    /\ ~Contains(Squeeze(excerpt.value), argCitation.full_citation)
    /\ FallbackMatches(excerpt.value)

---------------------------------------------------------------------------
(* C3 *)

\* C3 as stated: extract_relevant_text never raises; for a record without
\* full_citation or a text that is not a str the exception is caught and the
\* result carries '[Error extracting context: ...]'.
C3_NeverRaises ==
    Located => /\ Returned
               /\ (~HasFullCitation \/ ~text.isStr) => IsErrorForm(excerpt.value)

---------------------------------------------------------------------------
(* C4 *)

\* C4 as stated: for every text in which the full-citation string does not
\* occur, the result is the full citation followed by ' [Context not found]'.
C4_AbsentLiteralNotFound ==
    (LocatedIn /\ ~Contains(text.s, argCitation.full_citation))
        => excerpt = Return(argCitation.full_citation \o ContextNotFound)

\* C4 as amended: for every text in which neither the full citation occurs
\* with flexible whitespace nor, for a record with a section field, the
\* fallback pattern matches, the result is the full citation followed by
\* ' [Context not found]'.
C4_NoMatchNotFound ==
    (/\ LocatedIn
     /\ ~Contains(Squeeze(text.s), argCitation.full_citation)
     /\ ~FallbackMatches(text.s))
        => excerpt = Return(argCitation.full_citation \o ContextNotFound)

\* A non-empty text that holds neither, for a record with a section.
C4_Witness ==
    /\ LocatedIn /\ Len(text.s) > 0 /\ HasSection(argCitation)
    /\ ~Contains(Squeeze(text.s), argCitation.full_citation)
    /\ ~FallbackMatches(text.s)
    /\ Returned /\ IsNotFoundForm(excerpt.value)

---------------------------------------------------------------------------
(* C5 *)

\* C5: parse_all_citations('') returns an empty list, and for every str
\* input it returns a list and does not raise.
C5_ParseReturnsList ==
    (Parsed /\ text.isStr)
        => /\ parsed.kind = "return"
           /\ Len(parsed.value) >= 0
           /\ (text.s = << >>) => (parsed.value = << >>)

C5_Witness == Parsed /\ text = Str(<< >>) /\ parsed = Return(<< >>)

---------------------------------------------------------------------------
(* C6 *)

---------------------------------------------------------------------------
(* C7 *)

Cite17USC501 == <<"1", "7", " ", "U", ".", "S", ".", "C", ".", " ", "5", "0", "1">>
Usc17_501 == [citation_type |-> "USC", title |-> <<"1", "7">>, section |-> <<"5", "0", "1">>]

\* A parenthesised subsection starts at offset e.
SubsectionAt(s, e) ==
    MatchAt(Cat(<<Lit("("), Plus(Set(Lower \cup Digit)), Lit(")")>>), s, e).found

\* C7 as stated: for every text containing '17 U.S.C. 501', whatever
\* precedes or follows it, the parse returns a USC record with title '17'
\* and section '501'.
C7_AnyContext ==
    (Parsed /\ text.isStr /\ Contains(text.s, Cite17USC501)) => ParsedRecord(Usc17_501)

\* An occurrence the scan reads as title 17, section 501.
C7_Delimited(k) ==
    LET e == k + Len(Cite17USC501)
    IN /\ ~PrecededBy(text.s, k, Digit)
       /\ ~FollowedBy(text.s, e, Digit \cup Lower)
       /\ ~SubsectionAt(text.s, e)
       /\ ~OverlappedByEarlier(parser.usc_pattern, text.s, k)

\* C7 as amended: for every text containing '17 U.S.C. 501' at a place where
\* it is not directly preceded by a digit, not directly followed by a digit,
\* a lowercase letter or a parenthesised subsection, and not overlapped by
\* an earlier match of the USC pattern (as in '5 U.S.C. 17 U.S.C. 501'), the
\* parse returns a USC record with title '17' and section '501'.
C7_DelimitedOccurrence ==
    (Parsed /\ text.isStr /\ \E k \in Occurrences(text.s, Cite17USC501) : C7_Delimited(k))
        => ParsedRecord(Usc17_501)

\* A delimited occurrence with text before and after it.
C7_Witness ==
    /\ Parsed /\ text.isStr
    /\ \E k \in Occurrences(text.s, Cite17USC501) :
          C7_Delimited(k) /\ k > 0
    /\ ParsedRecord(Usc17_501)

---------------------------------------------------------------------------
(* C8 *)

Cite40CFR261_5 == <<"4", "0", " ", "C", "F", "R", " ", "2", "6", "1", ".", "5">>
Cfr40_261_5 ==
    [citation_type |-> "CFR", title |-> <<"4", "0">>, section |-> <<"2", "6", "1", ".", "5">>,
     part |-> <<"2", "6", "1">>]

\* C8 as stated: for every text containing '40 CFR 261.5' the parse returns
\* a CFR record with title '40', section '261.5' and part '261'.
C8_AnyContext ==
    (Parsed /\ text.isStr /\ Contains(text.s, Cite40CFR261_5)) => ParsedRecord(Cfr40_261_5)

C8_Delimited(k) ==
    LET e == k + Len(Cite40CFR261_5)
    IN /\ ~PrecededBy(text.s, k, Digit)
       /\ ~FollowedBy(text.s, e, Digit)
       /\ ~(FollowedBy(text.s, e, {"."}) /\ FollowedBy(text.s, e + 1, Digit))
       /\ ~OverlappedByEarlier(parser.cfr_pattern, text.s, k)

\* C8 as amended: for every text containing '40 CFR 261.5' at a place where
\* it is not directly preceded by a digit, not directly followed by a digit
\* or by a dot and a digit, and not overlapped by an earlier match of the
\* CFR pattern, the parse returns a CFR record with title '40', section
\* '261.5' and part '261'.
C8_DelimitedOccurrence ==
    (Parsed /\ text.isStr /\ \E k \in Occurrences(text.s, Cite40CFR261_5) : C8_Delimited(k))
        => ParsedRecord(Cfr40_261_5)

C8_Witness ==
    /\ Parsed /\ text.isStr
    /\ \E k \in Occurrences(text.s, Cite40CFR261_5) :
          C8_Delimited(k) /\ k > 0
    /\ ParsedRecord(Cfr40_261_5)

---------------------------------------------------------------------------
(* C9 *)

CitePublicLaw96_510 == <<"P", "u", "b", "l", "i", "c", " ", "L", "a", "w", " ", "9",
        "6", "-", "5", "1", "0">>
PublicLaw96_510 ==
    [congress |-> <<"9", "6">>, law_number |-> <<"5", "1", "0">>,
     full_citation |-> <<"P", "u", "b", "l", "i", "c", " ", "L", "a", "w", " ", "9",
        "6", "-", "5", "1", "0">>]

\* C9 as stated: for every text containing 'Public Law 96-510' the parse
\* returns a record with congress '96', law_number '510' and full_citation
\* 'Public Law 96-510'.
C9_AnyContext ==
    (Parsed /\ text.isStr /\ Contains(text.s, CitePublicLaw96_510))
        => ParsedRecord(PublicLaw96_510)

C9_Delimited(k) == ~FollowedBy(text.s, k + Len(CitePublicLaw96_510), Digit)

\* C9 as amended: for every text containing 'Public Law 96-510' at a place
\* where it is not directly followed by a digit, the parse returns a record
\* with congress '96', law_number '510' and full_citation
\* 'Public Law 96-510'.
C9_DelimitedOccurrence ==
    (Parsed /\ text.isStr
       /\ \E k \in Occurrences(text.s, CitePublicLaw96_510) : C9_Delimited(k))
        => ParsedRecord(PublicLaw96_510)

C9_Witness ==
    /\ Parsed /\ text.isStr
    /\ \E k \in Occurrences(text.s, CitePublicLaw96_510) :
          C9_Delimited(k) /\ k + Len(CitePublicLaw96_510) < Len(text.s)
    /\ ParsedRecord(PublicLaw96_510)

---------------------------------------------------------------------------
(* C10 *)

Cite124Stat119 == <<"1", "2", "4", " ", "S", "t", "a", "t", ".", " ", "1", "1", "9">>
Stat124_119 == [volume |-> <<"1", "2", "4">>, page |-> <<"1", "1", "9">>]

\* C10 as stated: for every text containing '124 Stat. 119', also when
\* another Statutes-at-Large citation directly precedes it and shares its
\* digits, the parse returns a record with volume '124' and page '119'.
C10_AnyContext ==
    (Parsed /\ text.isStr /\ Contains(text.s, Cite124Stat119)) => ParsedRecord(Stat124_119)

C10_Delimited(k) ==
    LET e == k + Len(Cite124Stat119)
    IN /\ ~PrecededBy(text.s, k, Digit)
       /\ ~FollowedBy(text.s, e, Digit)
       /\ ~OverlappedByEarlier(parser.stat_pattern, text.s, k)

\* C10 as amended: for every text containing '124 Stat. 119' at a place
\* where it is not directly preceded or followed by a digit and not
\* overlapped by an earlier match of the Stat pattern (as in
\* '5 Stat. 124 Stat. 119', where '124' is taken as the page of the earlier
\* citation), the parse returns a record with volume '124' and page '119'.
C10_DelimitedOccurrence ==
    (Parsed /\ text.isStr /\ \E k \in Occurrences(text.s, Cite124Stat119) : C10_Delimited(k))
        => ParsedRecord(Stat124_119)

C10_Witness ==
    /\ Parsed /\ text.isStr
    /\ \E k \in Occurrences(text.s, Cite124Stat119) :
          C10_Delimited(k) /\ k > 0
    /\ ParsedRecord(Stat124_119)

---------------------------------------------------------------------------
(* C11 *)

\* The full citation the formats of the claim give for the fields of r.
FormattedCitation(r) ==
    CASE r.citation_type = "USC" -> r.title \o <<" ", "U", ".", "S", ".", "C", ".", " ">> \o r.section
      [] r.citation_type = "CFR" -> r.title \o <<" ", "C", ".", "F", ".", "R", ".", " ">> \o r.section
      [] r.citation_type = "Public Law" ->
            <<"P", "u", "b", "l", "i", "c", " ", "L", "a", "w", " ">> \o r.congress
            \o (IF r.law_number # << >> THEN <<"-">> \o r.law_number ELSE << >>)
      [] r.citation_type = "Stat" -> r.volume \o <<" ", "S", "t", "a", "t", ".", " ">> \o r.page

CarriesFullCitation(r) ==
    "full_citation" \in DOMAIN r /\ r.full_citation = FormattedCitation(r)

\* C11 as stated: every record either CitationParser (create_citation_dataset.py,
\* citation_parser.py) makes of a text carries a full_citation built from
\* its own fields in the format of its kind.
C11_EveryParserRecord ==
    Parsed => \A r \in Elems(ValueOr(parsed, << >>))
                       \cup Elems(ValueOr(legacy_parse_usc_citation(text), << >>)) :
                 CarriesFullCitation(r)

\* C11, amended: every record the CitationParser of create_citation_dataset.py
\* returns carries a full_citation built from its own fields in the format
\* of its kind; the records of the CitationParser of citation_parser.py
\* have no full_citation. The records are looked at where the parse call
\* returns; extract_relevant_text changes neither the text nor the records.
C11_DatasetParserRecord ==
    (pc = "parsed" /\ parsed.kind = "return")
        => /\ \A r \in Elems(parsed.value) : CarriesFullCitation(r)
           /\ \A r \in Elems(ValueOr(legacy_parse_usc_citation(text), << >>)) :
                 "full_citation" \notin DOMAIN r

\* A text was parsed into a USC record whose section has a subsection, so
\* that section and section_main differ.
C11_Witness ==
    /\ Parsed /\ parsed.kind = "return"
    /\ \E r \in Elems(parsed.value) :
          r.citation_type = "USC" /\ r.section # r.section_main
    /\ ValueOr(legacy_parse_usc_citation(text), << >>) # << >>

---------------------------------------------------------------------------
(* C12 *)

\* The records parse_all_citations makes of each fragment taken as a text
\* of its own.
ReferenceRecords ==
    UNION {Elems(ValueOr(parse_all_citations(CitationParser, Str(f)), << >>)) :
           f \in Fragments}

\* Two records of one citation type agree on every field but sql_query.
SameFields(r1, r2) ==
    /\ r1.citation_type = r2.citation_type
    /\ DOMAIN r1 = DOMAIN r2
    /\ \A f \in DOMAIN r1 \ {"sql_query"} : r1[f] = r2[f]

\* C12: any two records of the same citation type with equal field values,
\* parsed from the same text or from different texts, have equal sql_query
\* strings.
C12_QueryFromFields ==
    (Parsed /\ parsed.kind = "return")
        => \A r1 \in Elems(parsed.value) :
              \A r2 \in Elems(parsed.value) \cup ReferenceRecords :
                 SameFields(r1, r2) => r1.sql_query = r2.sql_query

\* A text that is no single fragment was parsed into a record with the
\* fields of a record of another text, and into two records at different
\* places with equal fields.
C12_Witness ==
    /\ Parsed /\ parsed.kind = "return" /\ text.s \notin Fragments
    /\ \E r1 \in Elems(parsed.value), r2 \in ReferenceRecords : SameFields(r1, r2)
    /\ \E m, n \in 1..Len(parsed.value) :
          m # n /\ SameFields(parsed.value[m], parsed.value[n])

---------------------------------------------------------------------------
(* C15 *)

\* The match the context is taken around: the first match of the pattern of
\* full_citation, else the first match of the fallback pattern.
LocatedMatch ==
    LET m == Search(FlexiblePattern(argCitation.full_citation), text.s)
    IN IF m.found THEN m
       ELSE IF FallbackMatches(text.s)
       THEN Search(LoosePattern(GetTitle(argCitation), argCitation.section).re, text.s)
       ELSE NoMatch

\* C15: when extract_relevant_text finds the citation at [s, e) of text, the
\* excerpt is text[a:b] with a <= s and b = min(len(text), e + window_size);
\* when the text is no longer than window_size the excerpt is the whole
\* text.
C15_ExcerptSpan ==
    LocatedIn
        => LET m == LocatedMatch
           IN m.found
                 => /\ Returned
                    /\ \E a \in 0..m.start :
                          excerpt.value = Slice(text.s, a,
                                                Min(Len(text.s), m.end + argWindow))
                    /\ Len(text.s) <= argWindow => excerpt.value = text.s

\* A citation was found with a window > 0 that does not reach both ends of
\* the text: the excerpt is a proper part of the text.
C15_Witness ==
    /\ LocatedIn /\ LocatedMatch.found /\ Returned
    /\ argWindow > 0
    /\ excerpt.value # text.s

---------------------------------------------------------------------------
(* C16 *)

\* The (0-based) offsets k in lo..hi-1 of s that hold a sentence end: one
\* of . ! ? followed by whitespace that is followed, before hi, by an
\* uppercase letter.
SentenceEnds(s, lo, hi) ==
    {k \in lo..(hi - 1) :
        /\ s[k + 1] \in {".", "!", "?"}
        /\ \E u \in (k + 2)..(hi - 1) :
              /\ s[u + 1] \in Upper
              /\ \A j \in (k + 1)..(u - 1) : s[j + 1] \in Space}

\* The offset of the first character after offset k that is no whitespace.
SentenceStartAfter(s, k) ==
    CHOOSE u \in (k + 2)..Len(s) : /\ s[u + 1] \notin Space
                                     /\ \A j \in (k + 1)..(u - 1) : s[j + 1] \in Space

SetMax(S) == CHOOSE x \in S : \A y \in S : y <= x

\* C16 as stated: when start = max(0, s - window) > 0, the excerpt
\* text[start:end] does not begin with an uppercase letter and the (up to)
\* 200 characters before start hold a sentence end, the excerpt returned
\* begins at the uppercase letter after the last such sentence end, for
\* every start > 0 and every number of whitespace characters.
C16_BeginsAtSentenceStart ==
    (LocatedIn /\ LocatedMatch.found /\ Returned)
        => LET start == Max(0, LocatedMatch.start - argWindow)
               end == Min(Len(text.s), LocatedMatch.end + argWindow)
               ends == SentenceEnds(text.s, Max(0, start - SentenceLookback), start)
           IN (/\ start > 0
               /\ ~MatchAt(StartsUpper, Slice(text.s, start, end), 0).found
               /\ ends # {})
                 => excerpt.value
                    = Slice(text.s, SentenceStartAfter(text.s, SetMax(ends)), end)

---------------------------------------------------------------------------
(* The same calls on texts that spell one citation in several ways.        *)

\* The spellings parse_usc_citation's pattern is written for, and texts in
\* which a character of a citation is replaced or left out.
VariantTexts ==
    { Str(<<"1", "7", " ", "U", "S", "C", " ", "5", "0", "1">>),
      Str(<<"1", "7", " ", "U", ".", "S", ".", "C", ".", " ", "5", "0", "1">>),
      Str(<<"1", "7", " ", "U", ".", "S", ".", " ", "C", "o", "d", "e",
        " ", "5", "0", "1">>),
      Str(<<"1", "7", " ", "U", ".", "S", ".", "C", "o", "d", "e", " ",
        "5", "0", "1">>),
      Str(<<"1", "7", " ", "U", ".", "S", ".", "C", ".", " ", "s", "e",
        "c", "t", "i", "o", "n", " ", "5", "0", "1">>),
      Str(<<"1", "7", " ", "U", ".", "S", ".", "C", ".", " ", "s", "e",
        "c", ".", " ", "5", "0", "1">>),
      Str(<<"1", "7", " ", "U", ".", "S", ".", "C", ".", " ", "5", "0",
        "1", "a", "(", "b", ")">>),
      Str(<<"1", "7", "\t", "U", ".", "S", ".", "C", ".", "\n", " ", "5", "0", "1">>),
      Str(<<"S", "e", "e", " ", "1", "7", " ", " ", "U", ".", "S", ".",
        "C", ".", " ", " ", " ", "5", "0", "1", " ", "a", "n",
        "d", " ", "1", "7", " ", "U", ".", "S", ".", "C", ".",
        " ", "5", "0", "1">>),
      Str(<<"1", "7", " ", "U", ".", "S", ".", "C", ".", "5", "0", "1",
        " ", "1", "7", " ", "U", ".", "S", ".", "C", ".", " ",
        "5", "0", "1">>),
      Str(<<"1", "7", " ", "U", "x", "S", ".", "C", ".", " ", "5", "0", "1", ".", " ",
            "1", "7", " ", " ", "U", ".", "S", ".", "C", ".", " ", "5", "0", "1">>),
      Str(<<"1", "7", " ", "U", ".", "S", ".", "C", ".", " ", "5", "0",
        "1", "a", ";", " ", "1", "7", " ", "U", ".", "S", ".",
        "C", ".", " ", "5", "0", "1", "(", "a", ")">>),
      Str(<<"4", "0", " ", "C", "F", "R", " ", "2", "6", "1", "x", "5",
        " ", "a", "n", "d", " ", "4", "0", " ", "C", ".", "F",
        ".", "R", ".", " ", "2", "6", "1", ".", "5">>),
      Str(<<"P", "u", "b", "l", "i", "c", " ", "L", "a", "w", " ", "9",
        "6", "-", "5", "1", "0", " ", "(", "1", "2", "4", " ",
        "S", "t", "a", "t", ".", " ", "1", "1", "9", ")">>) }

InitVariants ==
    /\ parser = CitationParser
    /\ text \in VariantTexts
    /\ pc = "ready"
    /\ ncalls = 0
    /\ parsed = NoOutcome
    /\ argCitation = NoCitation
    /\ argWindow = 0
    /\ excerpt = NoOutcome
    /\ NoWorkers /\ NoCleaning /\ NoDataset /\ NoScripts

SpecVariants == InitVariants /\ [][Next]_vars

---------------------------------------------------------------------------
(* C18 *)

RECURSIVE VariantEnds(_, _, _, _)
\* The offsets e such that s[i:e] equals c[k..] but for each space of c
\* being any non-empty run of whitespace.
VariantEnds(s, i, c, k) ==
    IF k > Len(c) THEN {i}
    ELSE IF c[k] = " "
    THEN UNION {VariantEnds(s, j, c, k + 1) :
                j \in {j \in (i + 1)..Len(s) : \A n \in (i + 1)..j : s[n] \in Space}}
    ELSE IF i < Len(s) /\ s[i + 1] = c[k] THEN VariantEnds(s, i + 1, c, k + 1)
    ELSE {}

\* The offsets of s at which such a string starts.
VariantStarts(s, c) == {i \in 0..Len(s) : VariantEnds(s, i, c, 1) # {}}

SetMin(S) == CHOOSE x \in S : \A y \in S : x <= y

\* C18: the pattern built from full_citation matches exactly the strings that
\* equal the citation but for each space being any non-empty run of
\* whitespace, every other character ('.', '(' and ')' too) matching only
\* itself; the search finds the leftmost of them and the context is taken
\* around it.
C18_MatchesCitationVariants ==
    LocatedIn
        => LET c == argCitation.full_citation
               starts == VariantStarts(text.s, c)
               m == Search(FlexiblePattern(c), text.s)
           IN /\ m.found <=> starts # {}
              /\ starts # {}
                    => /\ m.start = SetMin(starts)
                       /\ m.end \in VariantEnds(text.s, m.start, c, 1)
                       /\ excerpt = Return(ContextAround(text.s,
                                        [start |-> SetMin(starts), end |-> m.end],
                                        argWindow))

\* The citation was looked for in a text that spells it with a longer run
\* of whitespace, after a place where it is spelled with another character
\* for one of its characters.
C18_Witness ==
    /\ LocatedIn /\ Returned
    /\ LET c == argCitation.full_citation
           starts == VariantStarts(text.s, c)
       IN /\ starts # {}
          /\ \E e \in VariantEnds(text.s, SetMin(starts), c, 1) :
                e - SetMin(starts) > Len(c)
          /\ SetMin(starts) > 0
          /\ Search(FlexiblePatternUnescaped(c), text.s).start < SetMin(starts)

---------------------------------------------------------------------------
(* C19 *)

\* The spellings of the claim.
UscSpellings ==
    { <<"1", "7", " ", "U", "S", "C", " ", "5", "0", "1">>, <<"1", "7", " ", "U", ".", "S", ".", "C", ".", " ", "5", "0", "1">>, <<"1", "7", " ", "U", ".", "S", ".", " ", "C", "o", "d", "e",
        " ", "5", "0", "1">>,
      <<"1", "7", " ", "U", ".", "S", ".", "C", ".", " ", "s", "e",
        "c", "t", "i", "o", "n", " ", "5", "0", "1">>, <<"1", "7", " ", "U", ".", "S", ".", "C", ".", " ", "s", "e",
        "c", ".", " ", "5", "0", "1">> }

\* C19 as stated: parsing any of '17 USC 501', '17 U.S.C. 501',
\* '17 U.S. Code 501', '17 U.S.C. section 501', '17 U.S.C. sec. 501' gives a
\* USC record with title '17' and section '501', and parsing
\* '17 U.S.C. 501a(b)' one with section '501a(b)'.
C19_SpellingsRecognized ==
    /\ (Parsed /\ text.s \in UscSpellings) => ParsedRecord(Usc17_501)
    /\ (Parsed /\ text.s = <<"1", "7", " ", "U", ".", "S", ".", "C", ".", " ", "5", "0",
        "1", "a", "(", "b", ")">>)
          => ParsedRecord([citation_type |-> "USC", title |-> <<"1", "7">>,
                           section |-> <<"5", "0", "1", "a", "(", "b", ")">>])

---------------------------------------------------------------------------
(* Parallel workers.  Each worker makes one call, of parse_all_citations   *)
(* on the one parser instance or of extract_relevant_text, a statement at  *)
(* a time; the statements of different workers interleave in any order.    *)

\* Number of workers.
NWorkers == 2
Workers == 1..NWorkers

WorkerTexts == { Str(<<"1", "7", " ", "U", "S", "C", " ", "5", "0", "1">>), Str(<<"P", ".", "L", ".", " ", "9", "6", "-", "5", "1", "0", ",",
        " ", "1", "2", "4", " ", "S", "t", "a", "t", ".", " ",
        "1", "1", "9">>) }

\* The records the parser makes of the texts: one USC, one Public Law, one
\* Stat, each built from the tuple findall gives.
WorkerCitations ==
    { UscRecord(<< <<"1", "7">>, <<"5", "0", "1">> >>),
      StatuteRecord(<< <<"9", "6">>, <<"5", "1", "0">> >>),
      StatRecord(<< <<"1", "2", "4">>, <<"1", "1", "9">> >>) }

\* A worker that has made no call yet: arguments, locals, result.
IdleFrame ==
    [pc |-> "idle", op |-> "none", text |-> None, citation_match |-> NoCitation,
     window_size |-> 0, citation |-> << >>, match |-> NoMatch, searches |-> << >>,
     result |-> NoOutcome]

NoSingle ==
    /\ text = None /\ pc = "unused" /\ ncalls = 0 /\ parsed = NoOutcome
    /\ argCitation = NoCitation /\ argWindow = 0 /\ excerpt = NoOutcome

\* all_results held by an attribute of the parser, which the workers share.
ListOwnerIsParser(w) == 0

\* The cell that holds all_results in the call of worker w: a local of the
\* call.  Cell 0 stands for the parser instance.
ListOwner(w) == w

InitWorkers ==
    /\ parser = CitationParser
    /\ calls = [w \in Workers |-> IdleFrame]
    /\ resultLists = [c \in 0..NWorkers |-> << >>]
    /\ NoSingle /\ NoCleaning /\ NoDataset /\ NoScripts

\* The frame of worker w becomes f; nothing else changes but what is named.
Becomes(w, f) == calls' = [calls EXCEPT ![w] = f]

\* parser.parse_all_citations(html_content)
CallParse(w) ==
    /\ calls[w].pc = "idle"
    /\ \E t \in WorkerTexts :
          Becomes(w, [IdleFrame EXCEPT !.pc = "all_results", !.op = "parse", !.text = t])
    /\ UNCHANGED <<parser, single, resultLists, cleanerVars, datasetVars, scriptVars>>

\* extract_relevant_text(html_content, citation)
CallExtract(w) ==
    /\ calls[w].pc = "idle"
    /\ \E t \in WorkerTexts, c \in WorkerCitations :
          Becomes(w, [IdleFrame EXCEPT !.pc = "citation", !.op = "extract", !.text = t,
                                       !.citation_match = c,
                                       !.window_size = DefaultWindow])
    /\ UNCHANGED <<parser, single, resultLists, cleanerVars, datasetVars, scriptVars>>

\* all_results = []
NewResults(w) ==
    /\ calls[w].pc = "all_results"
    /\ resultLists' = [resultLists EXCEPT ![ListOwner(w)] = NewList]
    /\ Becomes(w, [calls[w] EXCEPT !.pc = "usc"])
    /\ UNCHANGED <<parser, single, cleanerVars, datasetVars, scriptVars>>

\* all_results.extend(self.parse_..._citation(text)), one of the four.
ExtendResults(w) ==
    /\ calls[w].pc \in {"usc", "cfr", "statute", "stat"}
    /\ \E more \in {CASE calls[w].pc = "usc" -> parse_usc_citation(parser, calls[w].text)
                      [] calls[w].pc = "cfr" -> parse_cfr_citation(parser, calls[w].text)
                      [] calls[w].pc = "statute" ->
                            parse_statute_citation(parser, calls[w].text)
                      [] calls[w].pc = "stat" -> parse_stat_citation(parser, calls[w].text)} :
          /\ resultLists' = [resultLists EXCEPT ![ListOwner(w)] =
                                IF more.kind = "raise" THEN @ ELSE @ \o more.value]
          /\ Becomes(w, IF more.kind = "raise"
                        THEN [calls[w] EXCEPT !.pc = "done", !.result = more]
                        ELSE [calls[w] EXCEPT
                                 !.pc = CASE calls[w].pc = "usc" -> "cfr"
                                          [] calls[w].pc = "cfr" -> "statute"
                                          [] calls[w].pc = "statute" -> "stat"
                                          [] calls[w].pc = "stat" -> "return"])
    /\ UNCHANGED <<parser, single, cleanerVars, datasetVars, scriptVars>>

\* return all_results
ReturnResults(w) ==
    /\ calls[w].pc = "return"
    /\ Becomes(w, [calls[w] EXCEPT !.pc = "done",
                                   !.result = Return(resultLists[ListOwner(w)])])
    /\ UNCHANGED <<parser, single, resultLists, cleanerVars, datasetVars, scriptVars>>

\* citation = citation_match['full_citation']; the KeyError of a record
\* without it is caught at line 165, where line 166 reads the unbound
\* citation.
BindCitation(w) ==
    /\ calls[w].pc = "citation"
    /\ LET f == calls[w]
       IN IF "full_citation" \notin DOMAIN f.citation_match
          THEN Becomes(w, [f EXCEPT !.pc = "done", !.result = Raise("UnboundLocalError")])
          ELSE Becomes(w, [f EXCEPT !.pc = "search",
                                    !.citation = f.citation_match.full_citation])
    /\ UNCHANGED <<parser, single, resultLists, cleanerVars, datasetVars, scriptVars>>

\* pattern = ...; match = re.search(pattern, html_content); if match: ...
\* else: if 'section' in citation_match: ...
SearchCitation(w) ==
    /\ calls[w].pc = "search"
    /\ LET f == calls[w]
           match == Search(FlexiblePattern(f.citation), f.text.s)
       IN IF ~f.text.isStr
          THEN Becomes(w, [f EXCEPT !.pc = "done",
                              !.result = Return(ErrorResult(f.citation,
                                            "expected string or bytes-like object"))])
          ELSE Becomes(w, [f EXCEPT !.match = match, !.searches = <<"full">>,
                              !.pc = IF match.found THEN "context"
                                     ELSE IF HasSection(f.citation_match) THEN "fallback"
                                     ELSE "not_found"])
    /\ UNCHANGED <<parser, single, resultLists, cleanerVars, datasetVars, scriptVars>>

\* The window around the match and its sentence refinement; return context.
TakeContext(w) ==
    /\ calls[w].pc = "context"
    /\ LET f == calls[w]
       IN Becomes(w, [f EXCEPT !.pc = "done",
                         !.result = Return(ContextAround(f.text.s, f.match, f.window_size))])
    /\ UNCHANGED <<parser, single, resultLists, cleanerVars, datasetVars, scriptVars>>

\* section = citation_match['section']; pattern2 = ...; match =
\* re.search(pattern2, html_content).  KeyError and re.error are caught at
\* line 165.
SearchFallback(w) ==
    /\ calls[w].pc = "fallback"
    /\ LET f == calls[w]
       IN IF "section" \notin DOMAIN f.citation_match
          THEN Becomes(w, [f EXCEPT !.pc = "done",
                              !.result = Return(ErrorResult(f.citation, "'section'"))])
          ELSE LET loose == LoosePattern(GetTitle(f.citation_match), f.citation_match.section)
                   match == Search(loose.re, f.text.s)
               IN IF ~loose.ok
                  THEN Becomes(w, [f EXCEPT !.pc = "done",
                                      !.result = Return(ErrorResult(f.citation, "re.error"))])
                  ELSE Becomes(w, [f EXCEPT !.match = match,
                                      !.searches = f.searches \o <<"fallback">>,
                                      !.pc = IF match.found THEN "context" ELSE "not_found"])
    /\ UNCHANGED <<parser, single, resultLists, cleanerVars, datasetVars, scriptVars>>

\* return citation + " [Context not found]"
ReportNotFound(w) ==
    /\ calls[w].pc = "not_found"
    /\ Becomes(w, [calls[w] EXCEPT !.pc = "done",
                                   !.result = Return(NotFoundResult(calls[w].citation))])
    /\ UNCHANGED <<parser, single, resultLists, cleanerVars, datasetVars, scriptVars>>

NextWorkers ==
    \E w \in Workers :
        \/ CallParse(w) \/ CallExtract(w)
        \/ NewResults(w) \/ ExtendResults(w) \/ ReturnResults(w)
        \/ BindCitation(w) \/ SearchCitation(w) \/ TakeContext(w)
        \/ SearchFallback(w) \/ ReportNotFound(w)

SpecWorkers == InitWorkers /\ [][NextWorkers]_vars

---------------------------------------------------------------------------
(* C13 *)

\* What the call of worker w returns when it runs alone.
Alone(w) ==
    IF calls[w].op = "parse" THEN parse_all_citations(parser, calls[w].text)
    ELSE extract_relevant_text(calls[w].text, calls[w].citation_match,
                               calls[w].window_size)

\* C13: whatever the interleaving of the workers' statements, every call of
\* parse_all_citations and of extract_relevant_text returns what the same
\* call returns when run alone, and the parser the workers share is left as
\* it was constructed.
C13_WorkersAsAlone ==
    /\ parser = CitationParser
    /\ \A w \in Workers : calls[w].pc = "done" => calls[w].result = Alone(w)

\* One worker has returned the records of its text while another, on
\* another text, is between two statements of parse_all_citations.
C13_Witness ==
    \E v, w \in Workers :
        /\ calls[v].op = "parse" /\ calls[v].pc = "done"
        /\ calls[v].result.kind = "return" /\ calls[v].result.value # << >>
        /\ calls[w].op = "parse" /\ calls[w].pc \in {"cfr", "statute", "stat", "return"}
        /\ calls[w].text # calls[v].text
        /\ resultLists[ListOwner(w)] # << >>

---------------------------------------------------------------------------
(* C17 *)

\* The first match of the pattern of full_citation in the text of worker w.
FullMatch(w) ==
    Search(FlexiblePattern(calls[w].citation_match.full_citation), calls[w].text.s)

\* C17: in every call of extract_relevant_text the fallback pattern is
\* searched only after the pattern of full_citation was searched and
\* matched nowhere, and only for a record with a section field; for a
\* record without one (Public Law, Stat) a failed search is followed by the
\* '[Context not found]' result and no other search; and the result for a
\* fallback match is the window and sentence refinement around that match.
C17_FallbackLastAndOnlyWithSection ==
    \A w \in Workers :
        LET f == calls[w]
        IN f.op = "extract" =>
             /\ (f.pc = "fallback" \/ (f.searches # << >> /\ f.searches # <<"full">>))
                   => /\ f.searches \in {<<"full">>, <<"full", "fallback">>}
                      /\ ~FullMatch(w).found
                      /\ "section" \in DOMAIN f.citation_match
             /\ (f.pc = "done" /\ "section" \notin DOMAIN f.citation_match
                    /\ ~FullMatch(w).found)
                   => /\ f.searches = <<"full">>
                      /\ f.result = Return(NotFoundResult(f.citation))
             /\ (f.pc = "done" /\ f.searches = <<"full", "fallback">>)
                   => f.result
                      = LET m == Search(LoosePattern(GetTitle(f.citation_match),
                                                     f.citation_match.section).re,
                                        f.text.s)
                        IN IF m.found
                           THEN Return(ContextAround(f.text.s, m, f.window_size))
                           ELSE Return(NotFoundResult(f.citation))

\* One worker found a USC record by the fallback pattern; another ended
\* with no context for a Public Law record after the one search.
C17_Witness ==
    \E v, w \in Workers :
        /\ calls[v].op = "extract" /\ calls[v].pc = "done"
        /\ calls[v].searches = <<"full", "fallback">>
        /\ ~IsNotFoundForm(calls[v].result.value)
        /\ calls[w].op = "extract" /\ calls[w].pc = "done"
        /\ calls[w].citation_match.citation_type = "Public Law"
        /\ ~FullMatch(w).found

---------------------------------------------------------------------------
(* The text-cleaning functions: clean_html_text (single-commit-cleaner.py, *)
(* xml-html-parser.py), LegalDocumentGenerator._clean_text                 *)
(* (legal-document-generator.py) and clean_text (charter-extractor.py,     *)
(* final-charter-extractor.py), called with a value that need not be a     *)
(* str.                                                                    *)

\* A Python value that is no str, with what bool() makes of it.
Py(type, repr, truthy) ==
    [isStr |-> FALSE, s |-> << >>, type |-> type, repr |-> repr, truthy |-> truthy]

NonStrings ==
    { None,
      Py("bool", "True", TRUE), Py("bool", "False", FALSE),
      Py("int", "0", FALSE), Py("int", "1", TRUE), Py("int", "5", TRUE),
      Py("int", "-1", TRUE),
      Py("float", "0.0", FALSE), Py("float", "1.5", TRUE),
      Py("list", "[]", FALSE), Py("list", "[1]", TRUE), Py("list", "['a']", TRUE),
      Py("tuple", "()", FALSE), Py("tuple", "(1,)", TRUE),
      Py("dict", "{}", FALSE), Py("dict", "{1: 2}", TRUE),
      Py("set", "set()", FALSE),
      Py("bytes", "b''", FALSE), Py("bytes", "b'a'", TRUE),
      Py("object", "object()", TRUE) }

\* Strings without markup.
PlainStrings ==
    { Str(<< >>), Str(<<"a">>), Str(<<" ", "a", " ", " ", "b", "\t">>),
      Str(<<"a", "\n", "\n", "b", " ">>) }

\* bool(x), the test of 'if not x'
Truthy(x) ==
    IF x.isStr THEN Len(x.s) > 0
    ELSE IF x = None THEN FALSE
    ELSE x.truthy

RECURSIVE Strip(_)
\* s.strip()
Strip(s) ==
    IF Len(s) = 0 THEN s
    ELSE IF s[1] \in Space THEN Strip(Tail(s))
    ELSE IF s[Len(s)] \in Space THEN Strip(SubSeq(s, 1, Len(s) - 1))
    ELSE s

\* s.replace(a, b) for one-character a and b
Replace(s, a, b) == [k \in 1..Len(s) |-> IF s[k] = a THEN b ELSE s[k]]

\* clean_html_text: if not isinstance(html_content, str): return "".  The
\* argument ranges over the values that are no str; what BeautifulSoup
\* makes of a str is no part of this model.
clean_html_text(html_content) ==
    CASE ~html_content.isStr -> Return(<< >>)

\* LegalDocumentGenerator._clean_text: if not text or not isinstance(text,
\* str): return "".  The argument ranges over the values that are no str and
\* the empty str.
LegalDocumentGenerator_clean_text(x) ==
    CASE ~Truthy(x) \/ ~x.isStr -> Return(<< >>)

\* clean_text: if not text: return ""; then re.sub(r'\s+', ' ', text), which
\* raises TypeError for a value that is neither str nor falsy; the two
\* replace calls; strip.
clean_text(x) ==
    IF ~Truthy(x) THEN Return(<< >>)
    ELSE IF ~x.isStr THEN Raise("TypeError")
    ELSE Return(Strip(Replace(Replace(Replace(Squeeze(x.s), "\"", "\""), "\"", "\""),
                              "NBSP", " ")))

InitCleaners ==
    /\ parser = CitationParser
    /\ cleaning = [fn |-> "none"]
    /\ NoSingle /\ NoWorkers /\ NoDataset /\ NoScripts

\* What is known of a call once it has ended.
CleaningCall(file, fn, arg, result) ==
    [fn |-> fn, file |-> file, arg |-> arg, result |-> result]

\* single-commit-cleaner.py
CleanHtmlTextOfCleaner ==
    /\ \E v \in NonStrings :
          cleaning' = CleaningCall("single-commit-cleaner.py", "clean_html_text", v,
                                   clean_html_text(v))
    /\ UNCHANGED <<parser, single, workerVars, datasetVars, scriptVars>>

\* xml-html-parser.py
CleanHtmlTextOfParser ==
    /\ \E v \in NonStrings :
          cleaning' = CleaningCall("xml-html-parser.py", "clean_html_text", v,
                                   clean_html_text(v))
    /\ UNCHANGED <<parser, single, workerVars, datasetVars, scriptVars>>

\* legal-document-generator.py
CleanTextOfGenerator ==
    /\ \E v \in NonStrings \cup {Str(<< >>)} :
          cleaning' = CleaningCall("legal-document-generator.py", "_clean_text", v,
                                   LegalDocumentGenerator_clean_text(v))
    /\ UNCHANGED <<parser, single, workerVars, datasetVars, scriptVars>>

\* charter-extractor.py
CleanTextOfCharter ==
    /\ \E v \in NonStrings \cup PlainStrings :
          cleaning' = CleaningCall("charter-extractor.py", "clean_text", v, clean_text(v))
    /\ UNCHANGED <<parser, single, workerVars, datasetVars, scriptVars>>

\* final-charter-extractor.py
CleanTextOfFinalCharter ==
    /\ \E v \in NonStrings \cup PlainStrings :
          cleaning' = CleaningCall("final-charter-extractor.py", "clean_text", v,
                                   clean_text(v))
    /\ UNCHANGED <<parser, single, workerVars, datasetVars, scriptVars>>

NextCleaners ==
    \/ CleanHtmlTextOfCleaner \/ CleanHtmlTextOfParser \/ CleanTextOfGenerator
    \/ CleanTextOfCharter \/ CleanTextOfFinalCharter

SpecCleaners == InitCleaners /\ [][NextCleaners]_vars

---------------------------------------------------------------------------
(* C14 *)

\* C14 as stated: each of the five cleaning functions, called with a value
\* that is not a str, returns the empty string and does not raise.
C14_NonStringGivesEmpty ==
    (cleaning.fn # "none" /\ ~cleaning.arg.isStr) => cleaning.result = Return(<< >>)

---------------------------------------------------------------------------
(* process_dataset of create_citation_dataset.py: the loop over the        *)
(* documents of the stream, the saves, a KeyboardInterrupt and the rerun   *)
(* with resume_from.  A row of citations.csv is a citation_data dict       *)
(* restricted to the columns whose values are text that read_csv gives     *)
(* back as written (doc_id, citation_type, full_citation, context,         *)
(* sql_query); the columns read_csv re-types (title, section, ...) are     *)
(* left out.  The document at (0-based) position k has doc_id k.           *)

\* max_samples, and the greatest length of the stream.
MaxDocs == 4
\* chunk_size
ChunkSize == 2
\* The greatest max_per_type.
MaxCap == 2

\* max_per_type: 0 for None, else the cap.
MaxPerTypes == 0..MaxCap

\* sample.get('html', ''): an empty text, a value that is no str (parsing it
\* raises TypeError) and a text with one citation.
DocHtmls == { Str(<< >>), Py("int", "5", TRUE), Str(<<"1", "7", " ", "U", "S", "C", " ", "5", "0", "1">>) }

Streams == UNION {[1..n -> DocHtmls] : n \in (MaxDocs - 1)..MaxDocs}

CitationTypes == {"USC", "CFR", "Public Law", "Stat"}

NoCsv == [exists |-> FALSE]

\* The locals of process_dataset after line 232 (pos: documents taken from
\* dataset_iter; i: the next value of the loop variable; call: 1 for the
\* first run, 2 for the rerun).
FreshJob(call, strm, max_samples, max_per_type, chunk_size, resume_from, file) ==
    LET all_citations == IF resume_from > 0 /\ file.exists THEN file.rows ELSE << >>
    IN [phase |-> "running", call |-> call,
        total_to_process |-> max_samples, max_per_type |-> max_per_type,
        chunk_size |-> chunk_size, resume_from |-> resume_from,
        all_citations |-> all_citations,
        citation_type_counts |->
            [t \in CitationTypes |->
                Cardinality({k \in DOMAIN all_citations :
                                all_citations[k].citation_type = t})],
        pos |-> Min(resume_from, Len(strm)),
        i |-> resume_from,
        docs_processed |-> resume_from,
        chunk_start |-> resume_from,
        citations_in_current_chunk |-> 0,
        chunk_num |-> (resume_from \div chunk_size) + 1]

\* citation_data (lines 260-271)
CitationData(doc_id, html_content, citation) ==
    [doc_id |-> doc_id, citation_type |-> citation.citation_type,
     full_citation |-> citation.full_citation,
     context |-> extract_relevant_text(html_content, citation, DefaultWindow).value,
     sql_query |-> citation.sql_query]

\* The one element of a set of one element.
The(S) == CHOOSE x \in S : TRUE

RECURSIVE AddCitationsPastCap(_, _, _, _, _)
\* The loop over the citations with the cap tested by > for >=.
AddCitationsPastCap(j, doc_id, html_content, citations, k) ==
    IF k > Len(citations) THEN j
    ELSE LET citation_type == citations[k].citation_type
         IN IF j.max_per_type > 0
               /\ j.citation_type_counts[citation_type] > j.max_per_type
            THEN AddCitationsPastCap(j, doc_id, html_content, citations, k + 1)
            ELSE The({ AddCitationsPastCap(appended, doc_id, html_content, citations, k + 1) :
                       appended \in
                         {[j EXCEPT !.all_citations =
                                       Append(@, CitationData(doc_id, html_content, citations[k])),
                                    !.citations_in_current_chunk = @ + 1,
                                    !.citation_type_counts[citation_type] = @ + 1]} })

RECURSIVE AddCitations(_, _, _, _, _)
\* for citation in citations: ... (lines 252-282), from the k-th on.  A
\* max_per_type of 0 is None.
AddCitations(j, doc_id, html_content, citations, k) ==
    IF k > Len(citations) THEN j
    ELSE LET citation_type == citations[k].citation_type
         IN IF j.max_per_type > 0
               /\ j.citation_type_counts[citation_type] >= j.max_per_type
            THEN AddCitations(j, doc_id, html_content, citations, k + 1)
            ELSE The({ AddCitations(appended, doc_id, html_content, citations, k + 1) :
                       appended \in
                         {[j EXCEPT !.all_citations =
                                       Append(@, CitationData(doc_id, html_content, citations[k])),
                                    !.citations_in_current_chunk = @ + 1,
                                    !.citation_type_counts[citation_type] = @ + 1]} })

\* save_progress: nothing is written for an empty list; else citations.csv
\* is written anew with all the rows.
save_progress(all_citations, file) ==
    IF all_citations = << >> THEN file
    ELSE [exists |-> TRUE, rows |-> all_citations]

\* The end of a pass for a document that was parsed (lines 284-299): done is
\* the job after docs_processed += 1.
Counted(done, file) ==
    IF done.docs_processed % done.chunk_size = 0
       \/ done.docs_processed = done.total_to_process
    THEN [job |-> [done EXCEPT !.chunk_num = @ + 1,
                               !.chunk_start = done.docs_processed,
                               !.citations_in_current_chunk = 0],
          csv |-> save_progress(done.all_citations, file)]
    ELSE [job |-> done, csv |-> file]

\* A pass for a document whose html is truthy (lines 248-307): taken is the
\* job after next(dataset_iter), citations what parse_all_citations gave.
ProcessParsed(taken, file, doc_id, html_content, citations) ==
    IF citations.kind = "raise"
    THEN \* except Exception: continue
         [job |-> taken, csv |-> file]
    ELSE The({ Counted(done, file) :
               done \in {[AddCitations(taken, doc_id, html_content, citations.value, 1)
                             EXCEPT !.docs_processed = @ + 1]} })

\* One pass of the loop body (lines 235-307) with the job j and the file.
Iterate(j, file, self, strm) ==
    IF j.pos >= Len(strm)
    THEN \* next() raises StopIteration: break
         [job |-> [j EXCEPT !.i = j.total_to_process], csv |-> file]
    ELSE IF ~Truthy(strm[j.pos + 1])
         THEN \* continue
              [job |-> [j EXCEPT !.pos = @ + 1, !.i = @ + 1], csv |-> file]
         ELSE The({ ProcessParsed([j EXCEPT !.pos = @ + 1, !.i = @ + 1], file, j.pos,
                                  strm[j.pos + 1], citations) :
                    citations \in {parse_all_citations(self, strm[j.pos + 1])} })

\* The statements after the loop without the last save.
AfterLoopWithoutSave(j, file) ==
    [job |-> [j EXCEPT !.phase = "finished"], csv |-> file]

\* The statements after the loop (lines 309-311, 319-321).
AfterLoop(j, file) ==
    [job |-> [j EXCEPT !.phase = "finished"],
     csv |-> IF j.citations_in_current_chunk > 0
             THEN save_progress(j.all_citations, file) ELSE file]

RECURSIVE RunToEnd(_, _, _)
\* A run that no KeyboardInterrupt ends.
RunToEnd(m, self, strm) ==
    IF m.job.i < m.job.total_to_process
    THEN The({ RunToEnd(next, self, strm) : next \in {Iterate(m.job, m.csv, self, strm)} })
    ELSE AfterLoop(m.job, m.csv)

InitDataset ==
    /\ parser = CitationParser
    /\ stream \in Streams
    /\ \E max_per_type \in MaxPerTypes :
          job = FreshJob(1, stream, MaxDocs, max_per_type, ChunkSize, 0, NoCsv)
    /\ csv = NoCsv
    /\ reported = [said |-> FALSE]
    /\ NoSingle /\ NoWorkers /\ NoCleaning /\ NoScripts

\* for i in range(resume_from, total_to_process): one document
ProcessDocument ==
    /\ job.phase = "running"
    /\ job.i < job.total_to_process
    /\ \E m \in {Iterate(job, csv, parser, stream)} : job' = m.job /\ csv' = m.csv
    /\ UNCHANGED <<parser, stream, reported, single, workerVars, cleanerVars, scriptVars>>

\* The loop is over: the last save and the closing messages.
FinishRun ==
    /\ job.phase = "running"
    /\ job.i >= job.total_to_process
    /\ \E m \in {AfterLoop(job, csv)} : job' = m.job /\ csv' = m.csv
    /\ UNCHANGED <<parser, stream, reported, single, workerVars, cleanerVars, scriptVars>>

\* except KeyboardInterrupt (lines 313-317), raised between two documents
\* or after the last one, in the first run.
KeyboardInterrupt ==
    /\ job.phase = "running"
    /\ job.call = 1
    /\ csv' = save_progress(job.all_citations, csv)
    /\ reported' = [said |-> TRUE, index |-> job.chunk_start]
    /\ job' = [job EXCEPT !.phase = "interrupted"]
    /\ UNCHANGED <<parser, stream, single, workerVars, cleanerVars, scriptVars>>

\* process_dataset is run again with resume_from the index reported, the
\* other arguments as before.
Resume ==
    /\ job.phase = "interrupted"
    /\ job' = FreshJob(2, stream, MaxDocs, job.max_per_type, ChunkSize, reported.index, csv)
    /\ UNCHANGED <<parser, stream, csv, reported, single, workerVars, cleanerVars, scriptVars>>

NextDataset == ProcessDocument \/ FinishRun \/ KeyboardInterrupt \/ Resume

SpecDataset == InitDataset /\ [][NextDataset]_vars

---------------------------------------------------------------------------
(* C20 *)

\* citations.csv after a run of process_dataset over the stream that is not
\* interrupted.
UninterruptedCsv ==
    RunToEnd([job |-> FreshJob(1, stream, MaxDocs, job.max_per_type, ChunkSize, 0, NoCsv),
              csv |-> NoCsv],
             parser, stream).csv

\* C20 as stated: a run that is interrupted saves its citations and reports
\* chunk_start; when the rerun with resume_from set to the reported index
\* has finished, citations.csv holds what it holds after one uninterrupted
\* run over the same stream, no citation twice and none missing.
C20_ResumeAsUninterrupted ==
    /\ job.phase = "interrupted"
          => /\ reported.said /\ reported.index = job.chunk_start
             /\ job.all_citations # << >> => (csv.exists /\ csv.rows = job.all_citations)
    /\ (job.phase = "finished" /\ job.call = 2) => csv = UninterruptedCsv

---------------------------------------------------------------------------
(* C21 *)

\* The entries of the list rows that have the type t.
TypeCount(rows, t) ==
    Cardinality({k \in DOMAIN rows : rows[k].citation_type = t})

\* The next document is parsed, and each citation found in it is of a type
\* whose count has reached max_per_type.
AllOverCap ==
    /\ job.phase = "running" /\ job.max_per_type > 0
    /\ job.i < job.total_to_process /\ job.pos < Len(stream)
    /\ Truthy(stream[job.pos + 1])
    /\ \E citations \in {parse_all_citations(parser, stream[job.pos + 1])} :
          /\ citations.kind = "return" /\ citations.value # << >>
          /\ \A k \in DOMAIN citations.value :
                job.citation_type_counts[citations.value[k].citation_type]
                    >= job.max_per_type

\* C21: with max_per_type a positive N, in the first run and in the rerun
\* from the citations.csv the first run left, citation_type_counts and the
\* entries of all_citations of each type are at most N at every point, and
\* a document all of whose citations are skipped because of the cap changes
\* neither the counts nor the list.
C21_CapKept ==
    /\ [](job.max_per_type > 0 =>
             \A t \in CitationTypes :
                /\ job.citation_type_counts[t] <= job.max_per_type
                /\ TypeCount(job.all_citations, t) <= job.max_per_type
                /\ job.citation_type_counts[t] = TypeCount(job.all_citations, t))
    /\ [][AllOverCap =>
             /\ job'.all_citations = job.all_citations
             /\ job'.citation_type_counts = job.citation_type_counts
             /\ job'.citations_in_current_chunk \in {job.citations_in_current_chunk, 0}]_vars

\* A citation was skipped: the count of USC citations is at the cap and
\* more documents with a citation were processed than citations collected.
C21_Witness ==
    /\ job.max_per_type > 0
    /\ job.citation_type_counts["USC"] = job.max_per_type
    /\ job.resume_from = 0
    /\ job.docs_processed > Len(job.all_citations)

---------------------------------------------------------------------------
(* C22 *)

\* C22: each time docs_processed reaches a multiple of chunk_size,
\* save_progress is called with all_citations (the chunk number goes up and
\* citations.csv holds the list, unless the list is empty); and when the
\* run has finished, every citation of all_citations is in citations.csv.
C22_SavedAtChunksAndEnd ==
    /\ [][(/\ job.phase = "running" /\ job'.phase = "running"
           /\ job'.docs_processed = job.docs_processed + 1
           /\ job'.docs_processed % job.chunk_size = 0)
          => /\ job'.chunk_num = job.chunk_num + 1
             /\ csv' = save_progress(job'.all_citations, csv)
             /\ job'.chunk_start = job'.docs_processed]_vars
    /\ [](job.phase = "finished" =>
             (job.all_citations # << >> =>
                 csv.exists /\ csv.rows = job.all_citations))

\* A run has finished after a chunk save and a last save of the citations
\* appended after it.
C22_Witness ==
    /\ job.phase = "finished"
    /\ job.chunk_num > 1
    /\ job.citations_in_current_chunk > 0
    /\ csv.exists /\ csv.rows = job.all_citations

---------------------------------------------------------------------------
(* process_dataset of single-commit-cleaner.py: the batches submitted to    *)
(* the pool, the results taken from the futures, the part files.  A batch   *)
(* that was processed is named by the value of processed_count after it     *)
(* was appended; metadata.json is not modelled.                             *)

\* Batches the dataset yields at most.
MaxBatches == 5
\* num_workers
NumWorkers == 1
\* The number of processed batches at which a part is saved (50 in the source).
SaveEvery == 2

\* The variables of the other scripts.
NotBatches == <<pushing, hierarchy, scrape, chunkUpload, watcher>>

\* The locals at line 283, with no metadata.json to resume from.
InitBatches ==
    /\ batches = [phase |-> "loop", batch_count |-> 0, futures |-> 0, done_futures |-> 0,
                  processed_batches |-> << >>, processed_count |-> 0,
                  part_num |-> 0, saved_count |-> 0, parts |-> {}]
    /\ pushing = [phase |-> "none"] /\ hierarchy = [phase |-> "none"]
    /\ scrape = [phase |-> "none"] /\ chunkUpload = [phase |-> "none"]
    /\ watcher = [phase |-> "none"]
    /\ parser = CitationParser
    /\ NoSingle /\ NoWorkers /\ NoCleaning /\ NoDataset

\* Lines 329-333 and 389-391: the result is appended and counted.
AppendResult(b) ==
    [b EXCEPT !.processed_batches = Append(@, b.processed_count + 1),
              !.processed_count = @ + 1]

\* save_dataset_locally (lines 117-129) as called at lines 342-347 and
\* 400-405: written says whether to_parquet wrote the file (a path is
\* returned) or raised (None is returned).
SavePart(b, written) ==
    [b EXCEPT !.part_num = @ + 1,
              !.saved_count = IF written THEN @ + 1 ELSE @,
              !.parts = IF written
                        THEN @ \cup {[part_num |-> b.part_num + 1,
                                      batches |-> b.processed_batches]}
                        ELSE @]

\* Lines 336-361: combined says whether concatenate_datasets returned.
SavePeriodically(b, combined, written) ==
    IF Len(b.processed_batches) >= SaveEvery
    THEN IF combined
         THEN [SavePart(b, written) EXCEPT !.processed_batches = << >>]
         ELSE \* Keep the processed batches and try again next time
              b
    ELSE b

\* Lines 396-411.
SaveFinally(b, combined, written) ==
    IF b.processed_batches # << >> /\ combined THEN SavePart(b, written) ELSE b

\* Lines 286-320: a batch is taken and submitted; with num_workers * 2
\* futures or more, those that are done are then handled.
SubmitBatch ==
    /\ batches.phase = "loop" /\ batches.done_futures = 0
    /\ batches.batch_count < MaxBatches
    /\ \E done \in 0..(batches.futures + 1) :
          batches' = [batches EXCEPT
                         !.batch_count = @ + 1, !.futures = @ + 1,
                         !.done_futures = IF batches.futures + 1 >= NumWorkers * 2
                                          THEN done ELSE 0]
    /\ UNCHANGED <<textVars, NotBatches>>

\* Lines 323-364 for one done future: processed says whether process_batch
\* returned a frame (not None).
ResultInLoop ==
    /\ batches.phase = "loop" /\ batches.done_futures > 0
    /\ \E processed \in BOOLEAN, combined \in BOOLEAN, written \in BOOLEAN :
          \E b \in {[batches EXCEPT !.futures = @ - 1, !.done_futures = @ - 1]} :
             batches' = IF processed
                        THEN SavePeriodically(AppendResult(b), combined, written)
                        ELSE b
    /\ UNCHANGED <<textVars, NotBatches>>

\* Line 293 and 307: the end of the dataset.
EndOfDataset ==
    /\ batches.phase = "loop" /\ batches.done_futures = 0
    /\ batches' = [batches EXCEPT !.phase = "remaining"]
    /\ UNCHANGED <<textVars, NotBatches>>

\* Lines 385-393 for one of the remaining futures.
ResultAfterLoop ==
    /\ batches.phase = "remaining" /\ batches.futures > 0
    /\ \E processed \in BOOLEAN :
          \E b \in {[batches EXCEPT !.futures = @ - 1]} :
             batches' = IF processed THEN AppendResult(b) ELSE b
    /\ UNCHANGED <<textVars, NotBatches>>

\* Lines 396-411: the last part.
FinalSave ==
    /\ batches.phase = "remaining" /\ batches.futures = 0
    /\ \E combined \in BOOLEAN, written \in BOOLEAN :
          batches' = [SaveFinally(batches, combined, written) EXCEPT !.phase = "saved"]
    /\ UNCHANGED <<textVars, NotBatches>>

NextBatches == SubmitBatch \/ ResultInLoop \/ EndOfDataset \/ ResultAfterLoop \/ FinalSave

SpecBatches == InitBatches /\ [][NextBatches]_vars

---------------------------------------------------------------------------
(* C23 *)

\* The batches written to a part file.
WrittenBatches == UNION {Elems(p.batches) : p \in batches.parts}

\* C23 as stated: when combining or saving the processed batches fails, they
\* stay in processed_batches for a later save: before the last save, every
\* batch that was processed is in a part file or still in processed_batches.
C23_NoBatchDropped ==
    batches.phase \in {"loop", "remaining"} =>
        \A k \in 1..batches.processed_count :
            k \in WrittenBatches \/ k \in Elems(batches.processed_batches)

---------------------------------------------------------------------------
(* upload_entire_dataset of single-commit-cleaner.py: the parquet files    *)
(* are loaded and push_to_hub is tried in a loop.  outcomes lists what the  *)
(* calls of push_to_hub did, slept the arguments of time.sleep.            *)

max_retries == 5
\* retry_delay as first set (line 156)
FirstRetryDelay == 60

\* 2 ** n
RECURSIVE Pow2(_)
Pow2(n) == IF n = 0 THEN 1 ELSE 2 * Pow2(n - 1)

PushOutcomes == {"success", "rate limit", "error"}

\* The variables of the other scripts.
NotPushing == <<batches, hierarchy, scrape, chunkUpload, watcher>>

\* The call of upload_entire_dataset.
InitPushing ==
    /\ pushing = [phase |-> "called"]
    /\ batches = [phase |-> "none"] /\ hierarchy = [phase |-> "none"]
    /\ scrape = [phase |-> "none"] /\ chunkUpload = [phase |-> "none"]
    /\ watcher = [phase |-> "none"]
    /\ parser = CitationParser
    /\ NoSingle /\ NoWorkers /\ NoCleaning /\ NoDataset

ReturnValue(p, value) == [p EXCEPT !.phase = "returned", !.result = value]

\* The body of the for loop (lines 159-181) with what push_to_hub did; the
\* mutant below returns True where line 181 returns False.
IterationReturningTrueAtLast(p, outcome) ==
    LET called == [p EXCEPT !.outcomes = Append(@, outcome)]
    IN CASE outcome = "success" -> ReturnValue(called, TRUE)
         [] outcome = "rate limit" ->
              [called EXCEPT !.slept = Append(@, p.retry_delay * Pow2(p.attempt)),
                             !.attempt = @ + 1]
         [] outcome = "error" ->
              IF p.attempt < max_retries - 1
              THEN [called EXCEPT !.slept = Append(@, p.retry_delay),
                                  !.retry_delay = @ * 2,
                                  !.attempt = @ + 1]
              ELSE ReturnValue(called, TRUE)

\* The body of the for loop (lines 159-181) with what push_to_hub did.
Iteration(p, outcome) ==
    LET called == [p EXCEPT !.outcomes = Append(@, outcome)]
    IN CASE outcome = "success" -> ReturnValue(called, TRUE)
         [] outcome = "rate limit" ->
              [called EXCEPT !.slept = Append(@, p.retry_delay * Pow2(p.attempt)),
                             !.attempt = @ + 1]
         [] outcome = "error" ->
              IF p.attempt < max_retries - 1
              THEN [called EXCEPT !.slept = Append(@, p.retry_delay),
                                  !.retry_delay = @ * 2,
                                  !.attempt = @ + 1]
              ELSE ReturnValue(called, FALSE)

\* Lines 135-156: no parquet file, or Dataset.from_parquet raises (the
\* handler at line 184), or the loop is entered.
LoadParquetFiles ==
    /\ pushing.phase = "called"
    /\ \E found \in BOOLEAN, loaded \in BOOLEAN :
          pushing' = [phase |-> IF found /\ loaded THEN "trying" ELSE "returned",
                      result |-> FALSE, outcomes |-> << >>, slept |-> << >>,
                      attempt |-> 0, retry_delay |-> FirstRetryDelay]
    /\ UNCHANGED <<textVars, NotPushing>>

\* for attempt in range(max_retries): one attempt.
PushToHub ==
    /\ pushing.phase = "trying"
    /\ pushing.attempt < max_retries
    /\ \E outcome \in PushOutcomes : pushing' = Iteration(pushing, outcome)
    /\ UNCHANGED <<textVars, NotPushing>>

\* Line 183: the range is exhausted.
ReturnAfterLoop ==
    /\ pushing.phase = "trying"
    /\ pushing.attempt >= max_retries
    /\ pushing' = ReturnValue(pushing, FALSE)
    /\ UNCHANGED <<textVars, NotPushing>>

NextPushing == LoadParquetFiles \/ PushToHub \/ ReturnAfterLoop

SpecPushing == InitPushing /\ [][NextPushing]_vars

\* Each call made and each sleep ends, so the function goes on until it
\* returns.
SpecPushingFair == SpecPushing /\ WF_vars(NextPushing)

---------------------------------------------------------------------------
(* C24 *)

\* C24: whatever the calls of push_to_hub do, there are at most 5 of them,
\* none after a success, the function returns, and it returns True exactly
\* when a call succeeded.
C24_RetryLoop ==
    /\ [](pushing.phase \in {"trying", "returned"} =>
            /\ Len(pushing.outcomes) <= 5
            /\ \A k \in DOMAIN pushing.outcomes :
                  pushing.outcomes[k] = "success" => k = Len(pushing.outcomes)
            /\ pushing.phase = "returned" =>
                  (pushing.result = TRUE <=> "success" \in Elems(pushing.outcomes)))
    /\ <>(pushing.phase = "returned")

\* The fifth call succeeded after rate-limit errors and other errors.
C24_Witness ==
    /\ pushing.phase = "returned" /\ pushing.result = TRUE
    /\ Len(pushing.outcomes) = 5
    /\ {"rate limit", "error"} \subseteq Elems(pushing.outcomes)

---------------------------------------------------------------------------
(* structured_dataset_generator.py: identify_parent_child_relationships    *)
(* (the same loop is in document.py) and _calculate_hierarchy_path.  The    *)
(* doc ids are the keys of document_groups in their order.                  *)

\* The greatest number of documents.
MaxIds == 3

DocIdPool == { <<"a">>, <<"a", "_", "b">>, <<"a", "_", "b", "_", "c">>, <<"a", "b">> }

\* list(document_groups.keys()): lists of distinct ids.
DocIdLists ==
    UNION {{ids \in [1..n -> DocIdPool] : \A i, k \in 1..n : i # k => ids[i] # ids[k]}
              : n \in 1..MaxIds}

\* s.startswith(p)
StartsWith(s, p) == Len(p) <= Len(s) /\ SubSeq(s, 1, Len(p)) = p

\* The variables of the other scripts.
NotHierarchy == <<batches, pushing, scrape, chunkUpload, watcher>>

InitHierarchy ==
    /\ \E doc_ids \in DocIdLists : hierarchy = [phase |-> "grouped", doc_ids |-> doc_ids]
    /\ batches = [phase |-> "none"] /\ pushing = [phase |-> "none"]
    /\ scrape = [phase |-> "none"] /\ chunkUpload = [phase |-> "none"]
    /\ watcher = [phase |-> "none"]
    /\ parser = CitationParser
    /\ NoSingle /\ NoWorkers /\ NoCleaning /\ NoDataset

\* The inner loop (lines 121-129): the parent is the first id of the list,
\* other than doc_id, that followed by '_' starts doc_id; None without one.
ParentOf(doc_ids, doc_id) ==
    LET fits == {k \in DOMAIN doc_ids :
                    /\ doc_ids[k] # doc_id
                    /\ StartsWith(doc_id, doc_ids[k] \o <<"_">>)}
    IN IF fits = {} THEN None ELSE Str(doc_ids[SetMin(fits)])

\* relationships (lines 109-129): the children of an id are in the order
\* of the outer loop.
Relationships(doc_ids) ==
    [d \in Elems(doc_ids) |->
        [parent |-> ParentOf(doc_ids, d),
         children |-> SelectSeq(doc_ids, LAMBDA c : ParentOf(doc_ids, c) = Str(d))]]

RECURSIVE WalkUp(_, _, _)
\* The while loop of _calculate_hierarchy_path (lines 226-229).
WalkUp(path, current, relationships) ==
    IF Truthy(relationships[current].parent)
    THEN WalkUp(<<relationships[current].parent.s>> \o path,
                relationships[current].parent.s, relationships)
    ELSE path

\* _calculate_hierarchy_path(doc_id, relationships)
calculate_hierarchy_path(doc_id, relationships) ==
    WalkUp(<<doc_id>>, doc_id, relationships)

IdentifyRelationships ==
    /\ hierarchy.phase = "grouped"
    /\ hierarchy' = [phase |-> "related", doc_ids |-> hierarchy.doc_ids,
                     relationships |-> Relationships(hierarchy.doc_ids)]
    /\ UNCHANGED <<textVars, NotHierarchy>>

\* Line 192, for one document.
CalculateHierarchyPath ==
    /\ hierarchy.phase = "related"
    /\ \E k \in DOMAIN hierarchy.doc_ids :
          hierarchy' = [phase |-> "path", doc_ids |-> hierarchy.doc_ids,
                        relationships |-> hierarchy.relationships,
                        doc_id |-> hierarchy.doc_ids[k],
                        hierarchy_path |->
                            calculate_hierarchy_path(hierarchy.doc_ids[k],
                                                     hierarchy.relationships)]
    /\ UNCHANGED <<textVars, NotHierarchy>>

NextHierarchy == IdentifyRelationships \/ CalculateHierarchyPath

SpecHierarchy == InitHierarchy /\ [][NextHierarchy]_vars

---------------------------------------------------------------------------
(* C25 *)

\* The ids of the list that, followed by '_', start d.
Ancestors(doc_ids, d) ==
    {p \in Elems(doc_ids) : StartsWith(d, p \o <<"_">>)}

\* C25 as stated: the path returned for a document d lists, from the
\* shortest to the longest, every id p of the documents such that d starts
\* with p + '_', and then d.
C25_PathListsEveryAncestor ==
    hierarchy.phase = "path" =>
        LET d == hierarchy.doc_id
            path == hierarchy.hierarchy_path
            n == Len(path)
        IN /\ n >= 1 /\ path[n] = d
           /\ {path[k] : k \in 1..(n - 1)} = Ancestors(hierarchy.doc_ids, d)
           /\ \A i, k \in 1..(n - 1) : i < k => Len(path[i]) < Len(path[k])

---------------------------------------------------------------------------
(* ecode-scraper.py: main, read_urls_from_csv and interactive_scrape, run  *)
(* and run again.  A row of ecode_urls.csv is TRUE when its print_page     *)
(* column holds a URL, FALSE when it is empty; a URL is named by the       *)
(* (0-based) index of its row.  saved is current_index of                  *)
(* scraper_state.json, 0 without the file.                                 *)

\* Rows of ecode_urls.csv at most.
MaxRows == 3
\* Runs of the script.
MaxRuns == 2

CsvFiles == UNION {[1..n -> BOOLEAN] : n \in 1..MaxRows}

\* limit: None, or the number typed.
Limits == {[given |-> FALSE, n |-> 0]} \cup {[given |-> TRUE, n |-> k] : k \in 1..MaxRows}

\* The variables of the other scripts.
NotScrape == <<batches, pushing, hierarchy, chunkUpload, watcher>>

InitScrape ==
    /\ \E file \in CsvFiles :
          scrape = [phase |-> "main", run |-> 1, csv |-> file, saved |-> 0,
                    start_index |-> 0, rows |-> << >>, i |-> 0, processed |-> 0,
                    visited |-> << >>, fromState |-> TRUE]
    /\ batches = [phase |-> "none"] /\ pushing = [phase |-> "none"]
    /\ hierarchy = [phase |-> "none"] /\ chunkUpload = [phase |-> "none"]
    /\ watcher = [phase |-> "none"]
    /\ parser = CitationParser
    /\ NoSingle /\ NoWorkers /\ NoCleaning /\ NoDataset

\* read_urls_from_csv (lines 57-70): the rows from start_index on whose
\* column is not empty, limit of them at most.
read_urls_from_csv(file, start_index, limit) ==
    LET indexes == [k \in 1..Len(file) |-> k - 1]
        kept == SelectSeq(indexes, LAMBDA i : i >= start_index /\ file[i + 1])
    IN IF limit.given THEN SubSeq(kept, 1, Min(limit.n, Len(kept))) ELSE kept

\* main (lines 266-281) and interactive_scrape up to the loop (lines
\* 146-172): resume is the answer to 'Resume from URL ...?', initialized
\* says whether the session was set up (the state is then saved).
Main ==
    /\ scrape.phase = "main"
    /\ \E resume \in BOOLEAN, limit \in Limits, initialized \in BOOLEAN :
          \E start_index \in {IF scrape.saved > 0 /\ ~resume THEN 0 ELSE scrape.saved} :
             \E rows \in {read_urls_from_csv(scrape.csv, start_index, limit)} :
                scrape' = [scrape EXCEPT
                              !.phase = IF rows = << >> THEN "stopped" ELSE "scraping",
                              !.start_index = start_index,
                              !.rows = rows, !.i = 0, !.processed = 0,
                              !.saved = IF rows # << >> /\ initialized
                                        THEN start_index ELSE @,
                              !.fromState = @ /\ start_index = scrape.saved]
    /\ UNCHANGED <<textVars, NotScrape>>

\* One pass of the loop (lines 175-244): continue is the answer to
\* 'Continue to next URL?'.
ProcessUrl ==
    /\ scrape.phase = "scraping"
    /\ \E continue \in BOOLEAN :
          scrape' = [scrape EXCEPT
                        !.visited = Append(@, scrape.rows[scrape.i + 1]),
                        !.processed = @ + 1,
                        !.saved = scrape.start_index + scrape.i + 1,
                        !.i = IF scrape.i < Len(scrape.rows) - 1 /\ continue
                              THEN @ + 1 ELSE @,
                        !.phase = IF scrape.i < Len(scrape.rows) - 1 /\ continue
                                  THEN "scraping" ELSE "stopped"]
    /\ UNCHANGED <<textVars, NotScrape>>

\* The script is started again.
RunAgain ==
    /\ scrape.phase = "stopped"
    /\ scrape.run < MaxRuns
    /\ scrape' = [scrape EXCEPT !.phase = "main", !.run = @ + 1]
    /\ UNCHANGED <<textVars, NotScrape>>

NextScrape == Main \/ ProcessUrl \/ RunAgain

SpecScrape == InitScrape /\ [][NextScrape]_vars

---------------------------------------------------------------------------
(* C26 *)

\* The URLs of the CSV in the order of the rows.
UrlsOfCsv ==
    LET indexes == [k \in 1..Len(scrape.csv) |-> k - 1]
    IN SelectSeq(indexes, LAMBDA i : scrape.csv[i + 1])

\* C26 as stated: the saved index is start_index plus the number of URLs
\* processed in the run, and when every run began at the saved index, the
\* URLs processed over the runs are the first URLs of the CSV, each once and
\* in order (none skipped, none twice), with or without empty rows.
C26_ResumeNoSkipNoRepeat ==
    /\ scrape.processed > 0 => scrape.saved = scrape.start_index + scrape.processed
    /\ scrape.fromState =>
          /\ Len(scrape.visited) <= Len(UrlsOfCsv)
          /\ scrape.visited = SubSeq(UrlsOfCsv, 1, Len(scrape.visited))

---------------------------------------------------------------------------
(* upload_entire_dataset of fixed-upload.py: the parquet files are pushed   *)
(* in chunks of chunk_size files, each chunk with a retry loop like that of *)
(* single-commit-cleaner.py, and a dictionary naming the chunks is uploaded.*)
(* A chunk is named by its number i + 1.                                    *)

\* Parquet files in output_dir at most.
MaxFiles == 11
\* chunk_size (line 57)
FilesPerChunk == 10

\* len(chunks) for n files (line 58)
NumChunks(n) == (n + FilesPerChunk - 1) \div FilesPerChunk

\* The variables of the other scripts.
NotChunkUpload == <<batches, pushing, hierarchy, scrape, watcher>>

InitChunkUpload ==
    /\ chunkUpload = [phase |-> "called"]
    /\ batches = [phase |-> "none"] /\ pushing = [phase |-> "none"]
    /\ hierarchy = [phase |-> "none"] /\ scrape = [phase |-> "none"]
    /\ watcher = [phase |-> "none"]
    /\ parser = CitationParser
    /\ NoSingle /\ NoWorkers /\ NoCleaning /\ NoDataset

\* The chunk i is left for the next one (break at line 83, continue at line
\* 101, or the end of the range of attempts).
NextChunk(u) == [u EXCEPT !.phase = "chunk", !.i = @ + 1, !.attempt = 0]

\* One attempt of the retry loop (lines 72-97) with what push_to_hub did.
Attempt(u, outcome) ==
    CASE outcome = "success" -> NextChunk([u EXCEPT !.pushed = @ \cup {u.i + 1}])
      [] outcome = "rate limit" ->
           IF u.attempt + 1 < max_retries
           THEN [u EXCEPT !.attempt = @ + 1]
           ELSE NextChunk(u)
      [] outcome = "error" ->
           IF u.attempt < max_retries - 1
           THEN [u EXCEPT !.attempt = @ + 1, !.retry_delay = @ * 2]
           ELSE [u EXCEPT !.phase = "returned", !.result = FALSE]

\* Lines 35-58: the files are listed and the repository is made ready
\* (ready is FALSE when repo_exists or create_repo raises).
ListParquetFiles ==
    /\ chunkUpload.phase = "called"
    /\ \E n \in 0..MaxFiles, ready \in BOOLEAN :
          chunkUpload' = [phase |-> IF n = 0 \/ ~ready THEN "returned" ELSE "chunk",
                          result |-> FALSE, files |-> n, chunks |-> NumChunks(n),
                          i |-> 0, attempt |-> 0, retry_delay |-> FirstRetryDelay,
                          pushed |-> {}, listed |-> {}, uploaded |-> FALSE]
    /\ UNCHANGED <<textVars, NotChunkUpload>>

\* Lines 60-69 and 98-101: Dataset.from_parquet(chunk) returns or raises.
LoadChunk ==
    /\ chunkUpload.phase = "chunk"
    /\ chunkUpload.i < chunkUpload.chunks
    /\ \E loaded \in BOOLEAN :
          chunkUpload' = IF loaded
                         THEN [chunkUpload EXCEPT !.phase = "push", !.attempt = 0,
                                                  !.retry_delay = FirstRetryDelay]
                         ELSE NextChunk(chunkUpload)
    /\ UNCHANGED <<textVars, NotChunkUpload>>

\* for attempt in range(max_retries): one attempt for the chunk.
PushChunk ==
    /\ chunkUpload.phase = "push"
    /\ \E outcome \in PushOutcomes : chunkUpload' = Attempt(chunkUpload, outcome)
    /\ UNCHANGED <<textVars, NotChunkUpload>>

\* Lines 103-134: the dictionary lists range(len(chunks)); sent says whether
\* api.upload_file returned.
UploadDictionary ==
    /\ chunkUpload.phase = "chunk"
    /\ chunkUpload.i >= chunkUpload.chunks
    /\ \E sent \in BOOLEAN :
          chunkUpload' = [chunkUpload EXCEPT !.phase = "returned",
                                             !.listed = 1..chunkUpload.chunks,
                                             !.uploaded = sent,
                                             !.result = sent]
    /\ UNCHANGED <<textVars, NotChunkUpload>>

NextChunkUpload == ListParquetFiles \/ LoadChunk \/ PushChunk \/ UploadDictionary

SpecChunkUpload == InitChunkUpload /\ [][NextChunkUpload]_vars

---------------------------------------------------------------------------
(* C27 *)

\* C27 as stated: the function returns True only if every chunk was pushed,
\* and the dictionary that is uploaded lists no chunk that was not pushed
\* (because it could not be loaded or all its attempts failed).
C27_TrueOnlyIfAllPushed ==
    chunkUpload.phase = "returned" =>
        /\ chunkUpload.result = TRUE => chunkUpload.pushed = 1..chunkUpload.chunks
        /\ chunkUpload.uploaded => chunkUpload.listed \subseteq chunkUpload.pushed

---------------------------------------------------------------------------
(* auto_upload of auto_upload.py: the loop of checks.  Times are in        *)
(* minutes from the start of the function; the count of citations is what *)
(* get_total_citations returns at the check (0 when citations.csv cannot   *)
(* be read).                                                               *)

\* The checks end once this many minutes have passed.
MaxMinutes == 60
\* The greatest count of citations.
MaxCitations == 3
\* min_new_citations
MinNewCitations == 2
\* check_interval, in minutes (the default of 600 seconds)
CheckMinutes == 10
\* Minutes after which an upload is made whatever the count (line 84).
UploadAfterMinutes == 30

\* The minutes from one check to the next: the sleep, and the sleep with an
\* upload that took 5 minutes.
ElapsedMinutes == {CheckMinutes, CheckMinutes + 5}

\* The variables of the other scripts.
NotWatcher == <<batches, pushing, hierarchy, scrape, chunkUpload>>

\* Lines 63-64.
InitWatcher ==
    /\ \E count \in 0..MaxCitations :
          watcher = [phase |-> "running", now |-> 0, checks |-> 0, attempts |-> 0,
                     last_citation_count |-> count, last_upload_time |-> 0,
                     current_citation_count |-> count, current_time |-> 0,
                     attempted |-> FALSE, uploaded |-> FALSE]
    /\ batches = [phase |-> "none"] /\ pushing = [phase |-> "none"]
    /\ hierarchy = [phase |-> "none"] /\ scrape = [phase |-> "none"]
    /\ chunkUpload = [phase |-> "none"]
    /\ parser = CitationParser
    /\ NoSingle /\ NoWorkers /\ NoCleaning /\ NoDataset

\* One pass of the loop where the last count and time are set only when
\* the upload gave a result.
CheckOnceKeepingFailed(w, elapsed, count, uploaded) ==
    LET current_time == w.now + elapsed
        new_citations == count - w.last_citation_count
        time_since_last_upload == current_time - w.last_upload_time
        upload == new_citations >= MinNewCitations
                  \/ time_since_last_upload >= UploadAfterMinutes
    IN [w EXCEPT !.now = current_time, !.checks = @ + 1,
                 !.current_time = current_time,
                 !.current_citation_count = count,
                 !.attempted = upload,
                 !.uploaded = upload /\ uploaded,
                 !.attempts = IF upload THEN @ + 1 ELSE @,
                 !.last_citation_count = IF upload /\ uploaded THEN count ELSE @,
                 !.last_upload_time = IF upload /\ uploaded THEN current_time ELSE @]

\* One pass of the loop (lines 71-90): elapsed minutes after the check
\* before, get_total_citations returns count; uploaded says whether
\* upload_dataset returned a result (not None).
CheckOnce(w, elapsed, count, uploaded) ==
    LET current_time == w.now + elapsed
        new_citations == count - w.last_citation_count
        time_since_last_upload == current_time - w.last_upload_time
        upload == new_citations >= MinNewCitations
                  \/ time_since_last_upload >= UploadAfterMinutes
    IN [w EXCEPT !.now = current_time, !.checks = @ + 1,
                 !.current_time = current_time,
                 !.current_citation_count = count,
                 !.attempted = upload,
                 !.uploaded = upload /\ uploaded,
                 !.attempts = IF upload THEN @ + 1 ELSE @,
                 !.last_citation_count = IF upload THEN count ELSE @,
                 !.last_upload_time = IF upload THEN current_time ELSE @]

\* while True: one check.
CheckCitations ==
    /\ watcher.phase = "running"
    /\ watcher.now < MaxMinutes
    /\ \E elapsed \in ElapsedMinutes, count \in 0..MaxCitations, uploaded \in BOOLEAN :
          watcher' = CheckOnce(watcher, elapsed, count, uploaded)
    /\ UNCHANGED <<textVars, NotWatcher>>

\* except KeyboardInterrupt (lines 92-94), raised during the sleep.
StopWatching ==
    /\ watcher.phase = "running"
    /\ watcher' = [watcher EXCEPT !.phase = "stopped"]
    /\ UNCHANGED <<textVars, NotWatcher>>

NextWatcher == CheckCitations \/ StopWatching

SpecWatcher == InitWatcher /\ [][NextWatcher]_vars

---------------------------------------------------------------------------
(* C28 *)

\* C28: at a check an upload is attempted exactly when the citations added
\* since the last attempt (or the start) are at least min_new_citations or
\* 30 minutes or more have passed since it; after an attempt, whether it gave
\* a result or None, last_citation_count and last_upload_time are the count
\* and the time of the check; without an attempt they are kept.
C28_AttemptExactlyWhenDue ==
    [][watcher'.checks = watcher.checks + 1 =>
          LET due == \/ watcher'.current_citation_count - watcher.last_citation_count
                           >= MinNewCitations
                     \/ watcher'.current_time - watcher.last_upload_time >= 30
          IN /\ watcher'.attempted <=> due
             /\ watcher'.attempts = watcher.attempts + (IF due THEN 1 ELSE 0)
             /\ due => /\ watcher'.last_citation_count = watcher'.current_citation_count
                       /\ watcher'.last_upload_time = watcher'.current_time
             /\ ~due => /\ watcher'.last_citation_count = watcher.last_citation_count
                        /\ watcher'.last_upload_time = watcher.last_upload_time]_vars

\* An upload attempted for new citations failed, and the count and the time
\* of that check were kept as the last ones.
C28_Witness ==
    /\ watcher.phase = "running"
    /\ watcher.attempted /\ ~watcher.uploaded
    /\ watcher.current_time < UploadAfterMinutes
    /\ watcher.last_citation_count = watcher.current_citation_count
    /\ watcher.last_citation_count >= MinNewCitations
    /\ watcher.last_upload_time = watcher.current_time
    /\ watcher.checks = 1

====
